---- MODULE Spec2Model ----
(***************************************************************************)
(* Model of the clinic application (src/clinic_app_v1.py): the sqlite     *)
(* store (patients, cases, treatment_plans, case_scan_images), the        *)
(* session state of ClinicApp and its event handlers.                     *)
(*                                                                         *)
(* Text is modelled as a sequence of character codes (ASCII), so that      *)
(* stripping, date parsing, date formatting and SQL text comparison are    *)
(* computed the way the code and sqlite compute them.                      *)
(***************************************************************************)
EXTENDS Integers, Sequences, FiniteSets, TLC

----------------------------------------------------------------------------
(* Bounds of the model                                                     *)

MaxPatients == 2
MaxCases == 2
MaxPlanItems == 1
MaxScans == 1
MaxDays == 1

----------------------------------------------------------------------------
(* Text values                                                             *)

SPACE == 32
DASH == 45
ZERO == 48

IsDigit(c) == c \in 48..57

EmptyText == << >>

\* SQL NULL / Python None in a text column: a value no entry widget can hold.
NULL == << 0 >>

\* Python None for an id attribute (ids start at 1, and the handlers test
\* the attributes for truth).
None == 0

RECURSIVE LStrip(_)
LStrip(s) ==
    IF s = << >> THEN s
    ELSE IF Head(s) = SPACE THEN LStrip(Tail(s)) ELSE s

RECURSIVE RStrip(_)
RStrip(s) ==
    IF s = << >> THEN s
    ELSE IF s[Len(s)] = SPACE THEN RStrip(SubSeq(s, 1, Len(s) - 1)) ELSE s

Strip(s) == RStrip(LStrip(s))

\* safe_str(v): (v or "").strip()
safe_str(v) == IF v = NULL THEN EmptyText ELSE Strip(v)

\* x or None, for a text written to a nullable column
OrNull(s) == IF s = EmptyText THEN NULL ELSE s

\* x or "", for a column read back into a widget
OrEmpty(v) == IF v = NULL THEN EmptyText ELSE v

AllDigits(s) == \A i \in 1..Len(s) : IsDigit(s[i])

RECURSIVE NumVal(_)
NumVal(s) ==
    IF s = << >> THEN 0
    ELSE 10 * NumVal(SubSeq(s, 1, Len(s) - 1)) + (s[Len(s)] - ZERO)

\* str(n) for n >= 0
RECURSIVE NatText(_)
NatText(n) ==
    IF n < 10 THEN << ZERO + n >>
    ELSE NatText(n \div 10) \o << ZERO + (n % 10) >>

\* str(n) for an integer
IntText(n) == IF n < 0 THEN << DASH >> \o NatText(0 - n) ELSE NatText(n)

\* sqlite's comparison of two TEXT values (BINARY collation): byte by byte,
\* the shorter text first when it is a prefix of the longer.
TextLeq(a, b) ==
    LET n == IF Len(a) < Len(b) THEN Len(a) ELSE Len(b)
    IN IF \E i \in 1..n : a[i] # b[i]
       THEN LET k == CHOOSE i \in 1..n :
                        a[i] # b[i] /\ \A j \in 1..(i - 1) : a[j] = b[j]
            IN a[k] < b[k]
       ELSE Len(a) <= Len(b)

\* LIKE '%needle%' (ASCII letters compared without case): needle occurs in hay
Lower(c) == IF c \in 65..90 THEN c + 32 ELSE c

LikeContains(hay, needle) ==
    \E i \in 1..(Len(hay) - Len(needle) + 1) :
        \A j \in 1..Len(needle) : Lower(hay[i + j - 1]) = Lower(needle[j])

----------------------------------------------------------------------------
(* Dates                                                                   *)

IsLeap(y) == (y % 4 = 0 /\ y % 100 # 0) \/ y % 400 = 0

DaysInMonth(y, m) ==
    IF m = 2 THEN (IF IsLeap(y) THEN 29 ELSE 28)
    ELSE IF m \in {4, 6, 9, 11} THEN 30 ELSE 31

NoDate == [ok |-> FALSE, y |-> 0, m |-> 0, d |-> 0]

\* parse_date(s) = datetime.strptime(s, "%Y-%m-%d"): ok = FALSE stands for
\* ValueError.  %Y takes exactly four digits; %m and %d take one or two
\* digits, so a month or day written without its leading zero is accepted.
parse_date(s) ==
    IF Len(s) < 8 \/ Len(s) > 10 THEN NoDate
    ELSE IF ~ (AllDigits(SubSeq(s, 1, 4)) /\ s[5] = DASH) THEN NoDate
    ELSE
      LET rest == SubSeq(s, 6, Len(s))
          cuts == {k \in 2..3 : k < Len(rest) /\ rest[k] = DASH}
      IN IF cuts = {} THEN NoDate
         ELSE
           LET k  == CHOOSE c \in cuts : \A c2 \in cuts : c <= c2
               ms == SubSeq(rest, 1, k - 1)
               ds == SubSeq(rest, k + 1, Len(rest))
               y  == NumVal(SubSeq(s, 1, 4))
               m  == NumVal(ms)
               d  == NumVal(ds)
           IN IF /\ AllDigits(ms)
                 /\ AllDigits(ds)
                 /\ Len(ds) \in 1..2
                 /\ y >= 1
                 /\ m \in 1..12
                 /\ d >= 1
                 /\ d <= DaysInMonth(y, m)
              THEN [ok |-> TRUE, y |-> y, m |-> m, d |-> d]
              ELSE NoDate

Pad2(n) == IF n < 10 THEN << ZERO >> \o NatText(n) ELSE NatText(n)

Pad4(n) ==
    IF n < 10 THEN << ZERO, ZERO, ZERO >> \o NatText(n)
    ELSE IF n < 100 THEN << ZERO, ZERO >> \o NatText(n)
    ELSE IF n < 1000 THEN << ZERO >> \o NatText(n)
    ELSE NatText(n)

\* dt.strftime("%Y-%m-%d")
strftime(dt) == Pad4(dt.y) \o << DASH >> \o Pad2(dt.m) \o << DASH >> \o Pad2(dt.d)

DayAfter(dt) ==
    IF dt.d < DaysInMonth(dt.y, dt.m) THEN [dt EXCEPT !.d = dt.d + 1]
    ELSE IF dt.m < 12 THEN [dt EXCEPT !.m = dt.m + 1, !.d = 1]
    ELSE [dt EXCEPT !.y = dt.y + 1, !.m = 1, !.d = 1]

DayBefore(dt) ==
    IF dt.d > 1 THEN [dt EXCEPT !.d = dt.d - 1]
    ELSE IF dt.m > 1
         THEN [dt EXCEPT !.m = dt.m - 1, !.d = DaysInMonth(dt.y, dt.m - 1)]
         ELSE [dt EXCEPT !.y = dt.y - 1, !.m = 12, !.d = 31]

\* start_dt + timedelta(days = n)
RECURSIVE AddDays(_, _)
AddDays(dt, n) ==
    IF n = 0 THEN dt
    ELSE IF n > 0 THEN AddDays(DayAfter(dt), n - 1)
    ELSE AddDays(DayBefore(dt), n + 1)

\* int(s) of a text: ok = FALSE stands for ValueError.
int(s) ==
    LET t    == Strip(s)
        neg  == t # << >> /\ Head(t) = DASH
        body == IF neg THEN Tail(t) ELSE t
    IN IF body # << >> /\ AllDigits(body)
       THEN [ok |-> TRUE, v |-> IF neg THEN 0 - NumVal(body) ELSE NumVal(body)]
       ELSE [ok |-> FALSE, v |-> 0]

\* calc_end_date(start_str, duration_days), duration_days an integer
calc_end_date(start_str, duration_days) ==
    IF start_str = EmptyText \/ duration_days = 0 THEN EmptyText
    ELSE IF ~ parse_date(start_str).ok THEN EmptyText
    ELSE strftime(AddDays(parse_date(start_str), duration_days))

----------------------------------------------------------------------------
(* State                                                                   *)

VARIABLES
    patients,            \* table patients: id -> row
    cases,               \* table cases: id -> row
    treatment_plans,     \* table treatment_plans: case_id -> rows in id order
    case_scan_images,    \* table case_scan_images: case_id -> number of rows
    patient_seq,         \* AUTOINCREMENT counter of patients
    case_seq,            \* AUTOINCREMENT counter of cases
    current_patient_id,  \* ClinicApp.current_patient_id
    current_case_id,     \* ClinicApp.current_case_id
    plan_items,          \* ClinicApp.plan_items (and the rows of plan_tree)
    editing_plan_index,  \* ClinicApp.editing_plan_index (1-based, None = 0)
    search_page,         \* ClinicApp.search_page
    p_tree,              \* patient ids listed in the patients tree
    p_selection,         \* selected patient of p_tree, or None
    c_tree,              \* case ids listed in the case history tree
    search_tree,         \* case ids listed in the Browse/Search tree
    calendar_cases,      \* ClinicApp.calendar_cases: follow-up date -> entries
    clock                \* days elapsed since Epoch (drives iso_today)

vars == << patients, cases, treatment_plans, case_scan_images, patient_seq,
           case_seq, current_patient_id, current_case_id, plan_items,
           editing_plan_index, search_page, p_tree, p_selection, c_tree,
           search_tree, calendar_cases, clock >>

Epoch == [ok |-> TRUE, y |-> 2024, m |-> 1, d |-> 31]

\* iso_today() on the day the clock shows
iso_today(s) == strftime(AddDays(Epoch, s.clock))

PAGE_SIZE == 50

PATIENT_LIMIT == 500

\* Contents of the entry widgets.  The user can retype them between any two
\* handlers, so they are inputs of a handler; within a handler they are
\* state that nested handlers clear or fill.
EmptyPatientForm ==
    [first |-> EmptyText, last |-> EmptyText, phone |-> EmptyText, dob |-> EmptyText,
     gender |-> EmptyText, email |-> EmptyText, address |-> EmptyText]

EmptyCaseForm ==
    [op_number |-> EmptyText, case_date |-> EmptyText, follow_up |-> EmptyText,
     case_status |-> "Open", cc |-> EmptyText]

EmptyPFilter == [name |-> EmptyText, phone |-> EmptyText]

EmptySFilter ==
    [name |-> EmptyText, phone |-> EmptyText, dfrom |-> EmptyText, dto |-> EmptyText]

EmptyPlanInputs ==
    [name |-> EmptyText, duration |-> EmptyText, start |-> EmptyText,
     type |-> "Medication", dosage |-> EmptyText, frequency |-> EmptyText,
     status |-> "Planned", notes |-> EmptyText]

\* The program state a handler works on: the variables, and the widgets as
\* the user left them when the handler was invoked.
Cur(pform, cform, pfilter, sfilter) ==
    [patients |-> patients, cases |-> cases, treatment_plans |-> treatment_plans,
     case_scan_images |-> case_scan_images, patient_seq |-> patient_seq,
     case_seq |-> case_seq, current_patient_id |-> current_patient_id,
     current_case_id |-> current_case_id, plan_items |-> plan_items,
     editing_plan_index |-> editing_plan_index, search_page |-> search_page,
     p_tree |-> p_tree, p_selection |-> p_selection, c_tree |-> c_tree,
     search_tree |-> search_tree, calendar_cases |-> calendar_cases,
     clock |-> clock, result |-> "",
     fail_at |-> 0,
     patient_form |-> pform, case_form |-> cform, p_filter |-> pfilter,
     s_filter |-> sfilter]

Here == Cur(EmptyPatientForm, EmptyCaseForm, EmptyPFilter, EmptySFilter)

\* The handler returns: its result state becomes the next state.  The
\* AUTOINCREMENT counters grow, and the scan rows stay, within the model's
\* bounds.
Commit(s) ==
    /\ s.patient_seq # patient_seq => s.patient_seq <= MaxPatients
    /\ s.case_seq # case_seq => s.case_seq <= MaxCases
    /\ \A c \in DOMAIN s.case_scan_images : s.case_scan_images[c] <= MaxScans
    /\ patients' = s.patients
    /\ cases' = s.cases
    /\ treatment_plans' = s.treatment_plans
    /\ case_scan_images' = s.case_scan_images
    /\ patient_seq' = s.patient_seq
    /\ case_seq' = s.case_seq
    /\ current_patient_id' = s.current_patient_id
    /\ current_case_id' = s.current_case_id
    /\ plan_items' = s.plan_items
    /\ editing_plan_index' = s.editing_plan_index
    /\ search_page' = s.search_page
    /\ p_tree' = s.p_tree
    /\ p_selection' = s.p_selection
    /\ c_tree' = s.c_tree
    /\ search_tree' = s.search_tree
    /\ calendar_cases' = s.calendar_cases
    /\ clock' = s.clock

\* The dialog a handler ends with (the title of its messagebox), or how it
\* returned when it shows none.  A nested handler's dialog is shown and
\* dismissed before the calling handler reports its own.
Show(s, title) == [s EXCEPT !.result = title]

----------------------------------------------------------------------------
(* Tables                                                                  *)

Without(f, keys) == [k \in (DOMAIN f) \ keys |-> f[k]]

Put(f, k, v) == [x \in (DOMAIN f) \cup {k} |-> IF x = k THEN v ELSE f[x]]

\* SELECT ... FROM treatment_plans WHERE case_id = c ORDER BY id
PlansOf(s, c) == IF c \in DOMAIN s.treatment_plans THEN s.treatment_plans[c] ELSE << >>

ScansOf(s, c) == IF c \in DOMAIN s.case_scan_images THEN s.case_scan_images[c] ELSE 0

TextLess(a, b) == TextLeq(a, b) /\ a # b

Take(q, n) == SubSeq(q, 1, IF Len(q) < n THEN Len(q) ELSE n)

\* DELETE FROM patients WHERE id = pid, on a connection with
\* PRAGMA foreign_keys = ON: the ON DELETE CASCADE keys of cases,
\* treatment_plans and case_scan_images remove the dependent rows.
delete_patient_no_cascade(s, pid) ==
    [s EXCEPT !.patients = Without(s.patients, {pid})]

delete_patient(s, pid) ==
    LET owned == {c \in DOMAIN s.cases : s.cases[c].patient_id = pid}
    IN IF pid \notin DOMAIN s.patients THEN s
       ELSE [s EXCEPT !.patients = Without(s.patients, {pid}),
                      !.cases = Without(s.cases, owned),
                      !.treatment_plans = Without(s.treatment_plans, owned),
                      !.case_scan_images = Without(s.case_scan_images, owned)]

----------------------------------------------------------------------------
(* Patients tab                                                            *)

\* The case sheet emptied with the loaded case and its plan kept
clear_case_sheet_fields_only(s) ==
    [s EXCEPT !.case_form = EmptyCaseForm]

\* clear_case_sheet / clear_case_form
clear_case_sheet(s) ==
    [s EXCEPT !.current_case_id = None,
              !.case_form = EmptyCaseForm,
              !.plan_items = << >>]

clear_case_form(s) == clear_case_sheet(s)

clear_case_history(s) == [s EXCEPT !.c_tree = << >>]

\* ORDER BY last_name, first_name (rows the key does not separate: by rowid)
PatientBefore(s, a, b) ==
    \/ TextLess(s.patients[a].last_name, s.patients[b].last_name)
    \/ /\ s.patients[a].last_name = s.patients[b].last_name
       /\ \/ TextLess(s.patients[a].first_name, s.patients[b].first_name)
          \/ (s.patients[a].first_name = s.patients[b].first_name /\ a < b)

\* The rows ids in the order of PatientBefore: the rows before a row p, then
\* p, then the others
RECURSIVE SortPatients(_, _)
PatientsAround(s, p, lo, rest) ==
    SortPatients(s, lo) \o << p >> \o SortPatients(s, rest \ lo)

SortPatients(s, ids) ==
    IF ids = {} THEN << >>
    ELSE LET p == CHOOSE x \in ids : TRUE
         IN PatientsAround(s, p, {x \in ids : PatientBefore(s, x, p)}, ids \ {p})

\* The patient query without its LIMIT 500
PatientRowsNoLimit(s, name, phone) ==
    SortPatients(s, {p \in DOMAIN s.patients :
                    /\ name # EmptyText =>
                         \/ LikeContains(s.patients[p].first_name, name)
                         \/ LikeContains(s.patients[p].last_name, name)
                    /\ phone # EmptyText =>
                         /\ s.patients[p].phone # NULL
                         /\ LikeContains(s.patients[p].phone, phone)})

\* SELECT ... FROM patients WHERE <filters> ORDER BY last_name, first_name LIMIT 500
PatientRows(s, name, phone) ==
    LET match == {p \in DOMAIN s.patients :
                    /\ name # EmptyText =>
                         \/ LikeContains(s.patients[p].first_name, name)
                         \/ LikeContains(s.patients[p].last_name, name)
                    /\ phone # EmptyText =>
                         /\ s.patients[p].phone # NULL
                         /\ LikeContains(s.patients[p].phone, phone)}
    IN Take(SortPatients(s, match), PATIENT_LIMIT)

\* The selection without the test of the status
calendar_listed_closed_too(rows_p, rows_c) ==
    {c \in DOMAIN rows_c :
        /\ rows_c[c].patient_id \in DOMAIN rows_p
        /\ rows_c[c].follow_up_date # NULL
        /\ rows_c[c].follow_up_date # EmptyText
        /\ parse_date(rows_c[c].follow_up_date).ok}

\* The cases the query of refresh_calendar selects: an owner in patients
\* (JOIN), a follow-up date that is neither NULL nor '' and a status other
\* than Closed; a row whose date strptime refuses is skipped by the loop.
calendar_listed(rows_p, rows_c) ==
    {c \in DOMAIN rows_c :
        /\ rows_c[c].patient_id \in DOMAIN rows_p
        /\ rows_c[c].follow_up_date # NULL
        /\ rows_c[c].follow_up_date # EmptyText
        /\ rows_c[c].case_status # "Closed"
        /\ parse_date(rows_c[c].follow_up_date).ok}

\* The dictionary refresh_calendar builds: the entries of the selected cases
\* under their follow_up_date text. The query orders by the date only, so a
\* date's entries are kept as a set.
calendar_of(rows_p, rows_c) ==
    LET listed == calendar_listed(rows_p, rows_c)
    IN [d \in {rows_c[c].follow_up_date : c \in listed} |->
           {[case_id |-> c, status |-> rows_c[c].case_status,
             chief_complaint |-> rows_c[c].chief_complaint] :
                c \in {x \in listed : rows_c[x].follow_up_date = d}}]

refresh_calendar_fn(s) ==
    [s EXCEPT !.calendar_cases = calendar_of(s.patients, s.cases)]

on_patients_search_fn(s) ==
    LET name  == Strip(safe_str(s.p_filter.name))
        phone == Strip(safe_str(s.p_filter.phone))
        rows  == PatientRows(s, name, phone)
        s1    == [s EXCEPT !.p_tree = << >>, !.p_selection = None]
        s2    == IF rows = << >>
                 THEN LET t1 == [s1 EXCEPT !.patient_form = EmptyPatientForm,
                                           !.c_tree = << >>]
                          t2 == clear_case_sheet(t1)
                          t3 == [t2 EXCEPT !.current_patient_id = None]
                      IN IF name # EmptyText \/ phone # EmptyText
                         THEN Show(t3, "No Results") ELSE t3
                 ELSE [s1 EXCEPT !.p_tree = rows]
    IN [s2 EXCEPT !.p_filter = EmptyPFilter]

on_patients_clear_fn(s) ==
    LET s1 == [s EXCEPT !.p_filter = EmptyPFilter,
                        !.current_patient_id = None,
                        !.patient_form = EmptyPatientForm,
                        !.c_tree = << >>]
        s2 == clear_case_sheet(s1)
    IN [s2 EXCEPT !.p_tree = PatientRows(s2, EmptyText, EmptyText),
                  !.p_selection = None]

on_new_patient_fn(s) ==
    clear_case_history([s EXCEPT !.current_patient_id = None,
                                 !.patient_form = EmptyPatientForm,
                                 !.p_selection = None])

\* SELECT ... FROM cases c WHERE c.patient_id = ? ORDER BY c.case_date DESC, c.id DESC
CaseBefore(s, a, b) ==
    \/ TextLess(s.cases[b].case_date, s.cases[a].case_date)
    \/ (s.cases[a].case_date = s.cases[b].case_date /\ a > b)

\* The rows ids in the order of CaseBefore
RECURSIVE SortCases(_, _)
CasesAround(s, c, lo, rest) ==
    SortCases(s, lo) \o << c >> \o SortCases(s, rest \ lo)

SortCases(s, ids) ==
    IF ids = {} THEN << >>
    ELSE LET c == CHOOSE x \in ids : TRUE
         IN CasesAround(s, c, {x \in ids : CaseBefore(s, x, c)}, ids \ {c})

load_case_history_for_patient(s, patient_id) ==
    [s EXCEPT !.c_tree =
        SortCases(s, {c \in DOMAIN s.cases : s.cases[c].patient_id = patient_id})]

select_patient_in_tree(s, patient_id) ==
    IF patient_id # None /\ \E i \in 1..Len(s.p_tree) : s.p_tree[i] = patient_id
    THEN [s EXCEPT !.p_selection = patient_id]
    ELSE s

----------------------------------------------------------------------------
(* Browse / Search tab                                                     *)

\* OFFSET n of a query (a negative OFFSET reads as 0)
Drop(q, n) ==
    IF n <= 0 THEN q ELSE IF n >= Len(q) THEN << >> ELSE SubSeq(q, n + 1, Len(q))

\* build_where_clause: ok = FALSE stands for the ValueError of parse_date
build_where_clause(s) ==
    LET f == s.s_filter
    IN [ok    |-> /\ Strip(safe_str(f.dfrom)) # EmptyText
                       => parse_date(Strip(safe_str(f.dfrom))).ok
                  /\ Strip(safe_str(f.dto)) # EmptyText
                       => parse_date(Strip(safe_str(f.dto))).ok,
        name  |-> Strip(safe_str(f.name)),
        phone |-> Strip(safe_str(f.phone)),
        dfrom |-> Strip(safe_str(f.dfrom)),
        dto   |-> Strip(safe_str(f.dto))]

\* The WHERE clause on a row of cases c JOIN patients p ON p.id = c.patient_id
WhereHolds(s, w, c) ==
    LET row == s.cases[c]
    IN /\ row.patient_id \in DOMAIN s.patients
       /\ w.name # EmptyText =>
            \/ LikeContains(s.patients[row.patient_id].first_name, w.name)
            \/ LikeContains(s.patients[row.patient_id].last_name, w.name)
       /\ w.phone # EmptyText =>
            /\ s.patients[row.patient_id].phone # NULL
            /\ LikeContains(s.patients[row.patient_id].phone, w.phone)
       /\ w.dfrom # EmptyText => TextLeq(w.dfrom, row.case_date)
       /\ w.dto # EmptyText => TextLeq(row.case_date, w.dto)

on_search_fn(s) ==
    LET w  == build_where_clause(s)
        s1 == [s EXCEPT !.search_tree = << >>]
    IN IF ~ w.ok THEN Show(s1, "Invalid date")
       ELSE LET hits == {c \in DOMAIN s.cases : WhereHolds(s, w, c)}
                rows == Take(Drop(SortCases(s, hits), s.search_page * PAGE_SIZE),
                             PAGE_SIZE)
            IN [s1 EXCEPT !.search_tree = rows]

on_search_clear_fn(s) ==
    [s EXCEPT !.s_filter = EmptySFilter, !.search_page = 0, !.search_tree = << >>]

on_next_page_fn(s) ==
    on_search_fn([s EXCEPT !.search_page = s.search_page + 1])

\* on_prev_page without max(0, ...)
on_prev_page_unclamped_fn(s) ==
    on_search_fn([s EXCEPT !.search_page = s.search_page - 1])

on_prev_page_fn(s) ==
    on_search_fn([s EXCEPT !.search_page =
                     IF s.search_page - 1 > 0 THEN s.search_page - 1 ELSE 0])

----------------------------------------------------------------------------
(* Patient handlers                                                        *)

on_save_patient_fn(s) ==
    LET f     == s.patient_form
        first == safe_str(f.first)
        last  == safe_str(f.last)
        phone == safe_str(f.phone)
        dob   == Strip(safe_str(f.dob))
        row   == [first_name |-> first, last_name |-> last,
                  dob |-> OrNull(dob), phone |-> OrNull(phone),
                  gender |-> OrNull(safe_str(f.gender)),
                  email |-> OrNull(safe_str(f.email)),
                  address |-> OrNull(safe_str(f.address))]
    IN IF first = EmptyText THEN Show(s, "Validation Error")
       ELSE IF last = EmptyText THEN Show(s, "Validation Error")
       ELSE IF phone = EmptyText \/ Len(phone) # 10 THEN Show(s, "Validation Error")
       ELSE IF dob # EmptyText /\ ~ parse_date(dob).ok THEN Show(s, "Validation Error")
       ELSE
         LET s1 == IF s.current_patient_id = None
                   THEN [s EXCEPT !.patients = Put(s.patients, s.patient_seq + 1, row),
                                  !.patient_seq = s.patient_seq + 1,
                                  !.current_patient_id = s.patient_seq + 1]
                   ELSE IF s.current_patient_id \in DOMAIN s.patients
                        THEN [s EXCEPT !.patients[s.current_patient_id] = row]
                        ELSE s
             s2 == on_patients_search_fn(s1)
             s3 == select_patient_in_tree(s2, s2.current_patient_id)
             s4 == on_search_fn(s3)
         IN Show(s4, "Saved")

on_delete_patient_fn(s, confirm) ==
    IF s.p_selection = None THEN Show(s, "No Selection")
    ELSE IF ~ confirm THEN Show(s, "Declined")
    ELSE LET s1 == delete_patient(s, s.p_selection)
             s2 == on_patients_search_fn(s1)
             s3 == clear_case_history(s2)
             s4 == on_new_patient_fn(s3)
             s5 == clear_case_form(s4)
             s6 == on_search_clear_fn(refresh_calendar_fn(s5))
         IN Show(s6, "Deleted")

\* The patient fields without the email
patient_form_without_email(row) ==
    [first |-> OrEmpty(row.first_name), last |-> OrEmpty(row.last_name),
     gender |-> OrEmpty(row.gender),
     dob |-> Strip(OrEmpty(row.dob)),
     phone |-> OrEmpty(row.phone), email |-> EmptyText,
     address |-> OrEmpty(row.address)]

\* The patient fields on_patient_selected fills from the row it loads
patient_form_of(row) ==
    [first |-> OrEmpty(row.first_name), last |-> OrEmpty(row.last_name),
     gender |-> OrEmpty(row.gender),
     dob |-> Strip(OrEmpty(row.dob)),
     phone |-> OrEmpty(row.phone), email |-> OrEmpty(row.email),
     address |-> OrEmpty(row.address)]

\* The user selects row pid of p_tree: <<TreeviewSelect>> runs the handler.
on_patient_selected_fn(s, pid) ==
    LET s1 == [s EXCEPT !.p_selection = pid, !.current_patient_id = pid]
        s2 == IF pid \in DOMAIN s.patients
              THEN [s1 EXCEPT !.patient_form = patient_form_of(s.patients[pid])]
              ELSE s1
    IN Show(load_case_history_for_patient(s2, pid), "")

----------------------------------------------------------------------------
(* Treatment plan handlers                                                 *)

\* The item on_add_plan / on_save_plan_changes build from the plan inputs;
\* ok = FALSE stands for the ValueError of a missing name, of parse_date(start)
\* or of int(duration).
\* The item built without the check of the start date
plan_item_unchecked_start(in) ==
    LET name     == safe_str(in.name)
        duration == safe_str(in.duration)
        start    == Strip(safe_str(in.start))
        ok       == /\ name # EmptyText
                    /\ duration # EmptyText => int(duration).ok
        end      == IF duration # EmptyText
                    THEN calc_end_date(start, int(duration).v)
                    ELSE EmptyText
    IN [ok |-> ok,
        item |-> [type |-> IF in.type = "" THEN "Medication" ELSE in.type,
                  name |-> name, dosage |-> safe_str(in.dosage),
                  frequency |-> safe_str(in.frequency), duration |-> duration,
                  start |-> start, end |-> end,
                  status |-> IF in.status = "" THEN "Planned" ELSE in.status,
                  notes |-> safe_str(in.notes)]]

plan_item_of(in) ==
    LET name     == safe_str(in.name)
        duration == safe_str(in.duration)
        start    == Strip(safe_str(in.start))
        ok       == /\ name # EmptyText
                    /\ start # EmptyText => parse_date(start).ok
                    /\ duration # EmptyText => int(duration).ok
        end      == IF duration # EmptyText
                    THEN calc_end_date(start, int(duration).v)
                    ELSE EmptyText
    IN [ok |-> ok,
        item |-> [type |-> IF in.type = "" THEN "Medication" ELSE in.type,
                  name |-> name, dosage |-> safe_str(in.dosage),
                  frequency |-> safe_str(in.frequency), duration |-> duration,
                  start |-> start, end |-> end,
                  status |-> IF in.status = "" THEN "Planned" ELSE in.status,
                  notes |-> safe_str(in.notes)]]

on_add_plan_fn(s, in) ==
    LET r == plan_item_of(in)
    IN IF ~ r.ok THEN Show(s, "Invalid Input")
       ELSE Show([s EXCEPT !.plan_items = Append(s.plan_items, r.item)], "")

RemoveAt(q, i) == SubSeq(q, 1, i - 1) \o SubSeq(q, i + 1, Len(q))

\* sel: the selected row of plan_tree (1-based), or None
on_delete_plan_fn(s, sel) ==
    IF sel = None THEN Show(s, "No Selection")
    ELSE Show([s EXCEPT !.plan_items = RemoveAt(s.plan_items, sel)], "")

on_edit_plan_fn(s, sel) ==
    IF sel = None THEN Show(s, "No Selection")
    ELSE Show([s EXCEPT !.editing_plan_index = sel], "Edit Mode")

\* plan_items[editing_plan_index] = item raises IndexError, which no except
\* clause of the handler catches, when the index is past the end of the list.
on_save_plan_changes_fn(s, in) ==
    LET r == plan_item_of(in)
    IN IF s.editing_plan_index = None THEN Show(s, "No Edit in Progress")
       ELSE IF ~ r.ok THEN Show(s, "Invalid Input")
       ELSE IF s.editing_plan_index > Len(s.plan_items) THEN Show(s, "IndexError")
       ELSE Show([s EXCEPT !.plan_items[s.editing_plan_index] = r.item,
                           !.editing_plan_index = None], "Updated")

----------------------------------------------------------------------------
(* Case handlers                                                           *)

on_new_case_fn(s) ==
    IF s.p_selection = None THEN Show(s, "No Patient")
    ELSE Show([s EXCEPT !.current_case_id = None,
                        !.case_form = EmptyCaseForm,
                        !.plan_items = << >>], "")

\* The treatment_plans row on_save_case inserts for an item of plan_items
plan_row_of(item) ==
    [item_type     |-> item.type,
     name          |-> item.name,
     dosage        |-> item.dosage,
     frequency     |-> item.frequency,
     duration_days |-> IF item.duration # EmptyText
                       THEN << int(item.duration).v >> ELSE << >>,
     start_date    |-> OrNull(item.start),
     end_date      |-> OrNull(item.end),
     status        |-> item.status,
     notes         |-> item.notes]

\* The item load_case_by_id builds from a treatment_plans row
plan_item_from_row(row) ==
    [type     |-> row.item_type,
     name     |-> OrEmpty(row.name),
     dosage   |-> OrEmpty(row.dosage),
     frequency |-> OrEmpty(row.frequency),
     duration |-> IF row.duration_days = << >> THEN EmptyText
                  ELSE IF row.duration_days[1] = 0 THEN EmptyText
                  ELSE IntText(row.duration_days[1]),
     start    |-> OrEmpty(row.start_date),
     end      |-> OrEmpty(row.end_date),
     status   |-> row.status,
     notes    |-> OrEmpty(row.notes)]

plan_rows_of(items) == [i \in 1..Len(items) |-> plan_row_of(items[i])]

plan_items_from_rows(rows) == [i \in 1..Len(rows) |-> plan_item_from_row(rows[i])]

\* What on_save_case does once the case is stored: refresh the views, then
\* reset the case sheet and the patients tab.
after_case_saved(s) ==
    LET s1 == IF s.current_patient_id # None
              THEN load_case_history_for_patient(s, s.current_patient_id) ELSE s
        f  == s1.s_filter
        s2 == IF \/ Strip(safe_str(f.name)) # EmptyText
                 \/ Strip(safe_str(f.phone)) # EmptyText
                 \/ Strip(safe_str(f.dfrom)) # EmptyText
                 \/ Strip(safe_str(f.dto)) # EmptyText
              THEN on_search_fn(s1) ELSE s1
        s3 == refresh_calendar_fn(s2)
    IN on_patients_clear_fn(on_new_patient_fn(clear_case_sheet(s3)))

\* INSERT of the plan rows without the DELETE of the case's old rows
append_plans(s, id, plans) ==
    IF PlansOf(s, id) \o plans = << >> THEN s.treatment_plans
    ELSE Put(s.treatment_plans, id, PlansOf(s, id) \o plans)

\* DELETE FROM treatment_plans WHERE case_id = id, then one INSERT per item
replace_plans(s, id, plans) ==
    IF plans = << >> THEN Without(s.treatment_plans, {id})
    ELSE Put(s.treatment_plans, id, plans)

\* The transaction of on_save_case ("with conn:"): the cases row, then the
\* replacement of the case's treatment_plans rows.  A sqlite3.Error (a
\* FOREIGN KEY failure) or a ValueError of int() rolls the transaction back.
\* A closed_date that keeps the stored date when the status is not Closed
closed_date_stale(s, case_status) ==
    IF case_status = "Closed" THEN iso_today(s)
    ELSE IF s.current_case_id \in DOMAIN s.cases
         THEN s.cases[s.current_case_id].closed_date
         ELSE NULL

\* closed_date = iso_today() if case_status == "Closed" else None
closed_date_of(s, case_status) ==
    IF case_status = "Closed" THEN iso_today(s) ELSE NULL

\* An UPDATE that writes patient_id as well
updated_case_reowned(old, fresh) == fresh

\* UPDATE cases SET op_number=?, case_date=?, ... WHERE id=?: the columns of
\* the SET list are written, patient_id is not among them
updated_case(old, fresh) == [fresh EXCEPT !.patient_id = old.patient_id]

\* A failed transaction whose statements stay in the store
no_rollback(s, partial) == partial

\* "with conn:" leaves by an exception: the statements executed so far
\* (partial) are rolled back to the store of s; what the handler assigned to
\* its own fields stays
rollback(s, partial) ==
    [partial EXCEPT !.cases = s.cases,
                    !.treatment_plans = s.treatment_plans,
                    !.case_seq = s.case_seq]

\* s.fail_at = k > 0: the storage raises sqlite3.Error at the k-th statement
\* of the transaction (1: the case INSERT/UPDATE, 2: the plan DELETE,
\* 2 + i: the INSERT of plan item i)
write_case(s, op_number, case_date, follow_up, cc) ==
    LET case_status == s.case_form.case_status
        closed_date == closed_date_of(s, case_status)
        new    == s.current_case_id = None
        id     == IF new THEN s.case_seq + 1 ELSE s.current_case_id
        fresh  == [patient_id |-> s.current_patient_id, op_number |-> op_number,
                   case_date |-> case_date, follow_up_date |-> OrNull(follow_up),
                   case_status |-> case_status, closed_date |-> closed_date,
                   chief_complaint |-> cc]
        rows   == IF new THEN Put(s.cases, id, fresh)
                  ELSE IF id \in DOMAIN s.cases
                       THEN [s.cases EXCEPT ![id] = updated_case(s.cases[id], fresh)]
                       ELSE s.cases
        badInt == \E i \in 1..Len(s.plan_items) :
                      /\ s.plan_items[i].duration # EmptyText
                      /\ ~ int(s.plan_items[i].duration).ok
        plans  == plan_rows_of(s.plan_items)
        wrote  == [s EXCEPT !.cases = rows,
                            !.case_seq = IF new THEN id ELSE s.case_seq,
                            !.current_case_id = id]
        item   == s.fail_at - 2
        strikes == /\ item \in 1..Len(s.plan_items)
                   /\ \A i \in 1..item :
                         \/ s.plan_items[i].duration = EmptyText
                         \/ int(s.plan_items[i].duration).ok
    IN IF new /\ s.current_patient_id \notin DOMAIN s.patients
       THEN Show(s, "Database Error")
       ELSE IF s.fail_at = 1
       THEN Show(rollback(s, s), "Database Error")
       ELSE IF s.fail_at = 2
       THEN Show(rollback(s, wrote), "Database Error")
       ELSE IF strikes
       THEN Show(rollback(s, [wrote EXCEPT !.treatment_plans =
                    replace_plans(s, id, SubSeq(plans, 1, item - 1))]),
                 "Database Error")
       ELSE IF badInt
       THEN Show([s EXCEPT !.current_case_id = id], "Validation Error")
       ELSE IF s.plan_items # << >> /\ id \notin DOMAIN rows
       THEN Show(s, "Database Error")
       ELSE LET s1 == [s EXCEPT !.cases = rows,
                                !.case_seq = IF new THEN id ELSE s.case_seq,
                                !.current_case_id = id,
                                !.treatment_plans = replace_plans(s, id, plans)]
            IN Show(after_case_saved(s1), "Saved")

\* SELECT id FROM cases WHERE op_number = ? AND case_date = ? AND id != ?
duplicate_op_number(s, op_number, case_date) ==
    LET self == IF s.current_case_id # None THEN s.current_case_id ELSE 0 - 1
    IN \E c \in DOMAIN s.cases :
          /\ s.cases[c].op_number = op_number
          /\ s.cases[c].case_date = case_date
          /\ c # self

\* The checks of on_save_case on the case sheet, in the order of the code
check_case(s) ==
    LET f         == s.case_form
        op_number == safe_str(f.op_number)
        typed     == Strip(safe_str(f.case_date))
        case_date == IF typed # EmptyText THEN typed ELSE iso_today(s)
        follow_up == Strip(safe_str(f.follow_up))
        existing  == duplicate_op_number(s, op_number, case_date)
        cc        == Strip(f.cc)
    IN IF op_number = EmptyText THEN Show(s, "Validation Error")
       ELSE IF typed # EmptyText /\ ~ parse_date(typed).ok
       THEN Show(s, "Validation Error")
       ELSE IF follow_up # EmptyText /\ ~ parse_date(follow_up).ok
       THEN Show(s, "Validation Error")
       ELSE IF existing THEN Show(s, "Validation Error")
       ELSE IF cc = EmptyText THEN Show(s, "Validation Error")
       ELSE write_case(s, op_number, case_date, follow_up, cc)

on_save_case_fn(s) ==
    IF s.current_patient_id # None THEN check_case(s)
    ELSE IF \/ safe_str(s.patient_form.first) = EmptyText
            \/ safe_str(s.patient_form.last) = EmptyText
         THEN Show(s, "Validation Error")
         ELSE LET s1 == on_save_patient_fn(s)
              IN IF s1.current_patient_id = None
                 THEN Show(s1, "Validation Error")
                 ELSE check_case(s1)

\* load_case_by_id that reports a missing case and leaves the session as it is
load_case_by_id_keep_fn(s, case_id) ==
    IF ~ (case_id \in DOMAIN s.cases
          /\ s.cases[case_id].patient_id \in DOMAIN s.patients)
    THEN Show(s, "Not Found")
    ELSE LET pid == s.cases[case_id].patient_id
             s1  == [s EXCEPT !.current_patient_id = pid,
                              !.current_case_id = case_id]
             s2  == select_patient_in_tree(s1, pid)
             s3  == [s2 EXCEPT !.plan_items =
                                   plan_items_from_rows(PlansOf(s, case_id))]
         IN Show(load_case_history_for_patient(s3, pid), "")

load_case_by_id_fn(s, case_id) ==
    IF ~ (case_id \in DOMAIN s.cases
          /\ s.cases[case_id].patient_id \in DOMAIN s.patients)
    THEN Show([s EXCEPT !.current_patient_id = None,
                        !.current_case_id = None,
                        !.patient_form = EmptyPatientForm,
                        !.case_form = EmptyCaseForm,
                        !.plan_items = << >>], "Not Found")
    ELSE LET pid == s.cases[case_id].patient_id
             s1  == [s EXCEPT !.current_patient_id = pid,
                              !.current_case_id = case_id]
             s2  == select_patient_in_tree(s1, pid)
             s3  == [s2 EXCEPT !.plan_items =
                                   plan_items_from_rows(PlansOf(s, case_id))]
         IN Show(load_case_history_for_patient(s3, pid), "")

\* on_close_case without the closure date
on_close_case_status_only_fn(s, confirm) ==
    IF s.current_case_id = None \/ ~ confirm THEN Show(s, "No Case")
    ELSE Show([s EXCEPT !.cases[s.current_case_id].case_status = "Closed"],
              "Case Closed")

\* on_close_case with an UPDATE that has no WHERE clause
on_close_case_all_fn(s, confirm) ==
    IF s.current_case_id = None \/ ~ confirm THEN Show(s, "No Case")
    ELSE Show([s EXCEPT !.cases = [c \in DOMAIN s.cases |->
                            [s.cases[c] EXCEPT !.case_status = "Closed",
                                               !.closed_date = iso_today(s)]]],
              "Case Closed")

on_close_case_fn(s, confirm) ==
    IF s.current_case_id = None THEN Show(s, "No Case")
    ELSE IF ~ confirm THEN Show(s, "Declined")
    ELSE LET id == s.current_case_id
             s1 == IF id \in DOMAIN s.cases
                   THEN [s EXCEPT !.cases[id].case_status = "Closed",
                                  !.cases[id].closed_date = iso_today(s)]
                   ELSE s
             s2 == IF s1.current_patient_id # None
                   THEN load_case_history_for_patient(s1, s1.current_patient_id)
                   ELSE s1
             s3 == on_search_fn(refresh_calendar_fn(s2))
         IN Show(on_patients_clear_fn(on_new_patient_fn(clear_case_sheet(s3))),
                 "Case Closed")

\* n: the number of existing files the user picked in the file dialog.  The
\* connection of this handler does not turn foreign_keys on.
on_add_scan_images_fn(s, n) ==
    IF s.current_case_id = None THEN Show(s, "No Case")
    ELSE IF n = 0 THEN Show(s, "")
    ELSE Show([s EXCEPT !.case_scan_images =
                  Put(s.case_scan_images, s.current_case_id,
                      ScansOf(s, s.current_case_id) + n)], "Success")

----------------------------------------------------------------------------
(* Inputs: what the user types and picks                                   *)

Iso(y, m, d) == strftime([ok |-> TRUE, y |-> y, m |-> m, d |-> d])

\* The same day written without leading zeros, as in "2024-1-31"
Loose(y, m, d) == NatText(y) \o << DASH >> \o NatText(m) \o << DASH >> \o NatText(d)

BadDate == << 120 >>

Name_A == << 65 >>
Name_D == << 68 >>
Name_Z == << 90 >>
Op_7 == << 55 >>
Blank == << SPACE >>
Complaint == << 112 >>
Phone10 == << 57, 56, 55, 54, 53, 52, 51, 50, 49, 48 >>
Item_A == << 97 >>

ValidPatientForm ==
    [first |-> Name_A, last |-> Name_D, phone |-> Phone10, dob |-> EmptyText,
     gender |-> EmptyText, email |-> EmptyText, address |-> EmptyText]

Op_8 == << 56 >>

ValidCaseForm ==
    [op_number |-> Op_7, case_date |-> EmptyText, follow_up |-> EmptyText,
     case_status |-> "Open", cc |-> Complaint]

ValidPlanInput ==
    [name |-> Item_A, duration |-> << 51 >>, start |-> Iso(2024, 1, 31),
     type |-> "Medication", dosage |-> EmptyText, frequency |-> EmptyText,
     status |-> "Planned", notes |-> EmptyText]

NoMatchFilter == [name |-> Name_Z, phone |-> EmptyText]

\* Inputs of Spec: two OP numbers, case sheets with and without a complaint
MainPForms == {ValidPatientForm, EmptyPatientForm}

MainPFilters == {EmptyPFilter, NoMatchFilter}

MainSFilters == {EmptySFilter}

MainCaseForms ==
    {ValidCaseForm,
     [ValidCaseForm EXCEPT !.op_number = Op_8],
     [ValidCaseForm EXCEPT !.cc = Blank]}

MainPlanInputs == {ValidPlanInput, EmptyPlanInputs}

----------------------------------------------------------------------------
(* Actions: one per handler, on the inputs drawn from the given sets       *)

on_patients_search(pfilters) ==
    \E pf \in pfilters :
        Commit(on_patients_search_fn(Show(
                   Cur(EmptyPatientForm, EmptyCaseForm, pf, EmptySFilter), "")))

on_patients_clear ==
    Commit(Show(on_patients_clear_fn(Here), ""))

on_new_patient ==
    Commit(Show(on_new_patient_fn(Here), ""))

on_patient_selected ==
    \E i \in 1..Len(p_tree) :
        Commit(on_patient_selected_fn(Here, p_tree[i]))

\* The user selects one of the rows of p_tree at the given places
on_patient_selected_at(places) ==
    \E i \in places :
        /\ i <= Len(p_tree)
        /\ Commit(on_patient_selected_fn(Here, p_tree[i]))

on_save_patient(pforms, pfilters, sfilters) ==
    \E f \in pforms, pf \in pfilters, sf \in sfilters :
        Commit(on_save_patient_fn(Cur(f, EmptyCaseForm, pf, sf)))

on_delete_patient(pfilters) ==
    \E pf \in pfilters, confirm \in BOOLEAN :
        Commit(on_delete_patient_fn(
                   Cur(EmptyPatientForm, EmptyCaseForm, pf, EmptySFilter), confirm))

\* on_delete_patient while fewer than cap patients have been deleted
on_delete_patient_upto(pfilters, cap) ==
    /\ patient_seq - Cardinality(DOMAIN patients) < cap
    /\ on_delete_patient(pfilters)

on_new_case ==
    Commit(on_new_case_fn(Here))

\* The patient form and the patient filters are read only when no patient
\* is current (the handler then saves the patient first).
on_save_case(pforms, cforms, pfilters, sfilters) ==
    \E f \in (IF current_patient_id = None THEN pforms ELSE {EmptyPatientForm}),
       pf \in (IF current_patient_id = None THEN pfilters ELSE {EmptyPFilter}),
       cf \in cforms, sf \in sfilters :
        Commit(on_save_case_fn(Cur(f, cf, pf, sf)))

\* on_save_case while the storage fails at one of the given statements
on_save_case_failing(pforms, cforms, pfilters, sfilters, steps) ==
    \E f \in (IF current_patient_id = None THEN pforms ELSE {EmptyPatientForm}),
       pf \in (IF current_patient_id = None THEN pfilters ELSE {EmptyPFilter}),
       cf \in cforms, sf \in sfilters, k \in steps :
        Commit(on_save_case_fn([Cur(f, cf, pf, sf) EXCEPT !.fail_at = k]))

on_close_case(sfilters) ==
    \E sf \in sfilters, confirm \in BOOLEAN :
        Commit(on_close_case_fn(Cur(EmptyPatientForm, EmptyCaseForm, EmptyPFilter, sf),
                                confirm))

\* on_open_selected_history_case: the user picks a row of the case history
on_open_selected_history_case ==
    \E i \in 1..Len(c_tree) :
        Commit(load_case_by_id_fn(Here, c_tree[i]))

\* load_case_by_id called with one of the given case ids
load_case_by_id(ids) ==
    \E case_id \in ids : Commit(load_case_by_id_fn(Here, case_id))

\* on_load_selected_case: the user picks a row of the search results
on_load_selected_case ==
    \E i \in 1..Len(search_tree) :
        Commit(load_case_by_id_fn(Here, search_tree[i]))

on_search(sfilters) ==
    \E sf \in sfilters :
        Commit(on_search_fn(Show(
                   Cur(EmptyPatientForm, EmptyCaseForm, EmptyPFilter, sf), "")))

on_search_clear ==
    Commit(Show(on_search_clear_fn(Here), ""))

on_next_page(sfilters, cap) ==
    /\ search_page < cap
    /\ \E sf \in sfilters :
          Commit(on_next_page_fn(Show(
                     Cur(EmptyPatientForm, EmptyCaseForm, EmptyPFilter, sf), "")))

on_prev_page(sfilters) ==
    \E sf \in sfilters :
        Commit(on_prev_page_fn(Show(
                   Cur(EmptyPatientForm, EmptyCaseForm, EmptyPFilter, sf), "")))

on_add_plan(inputs, cap) ==
    /\ Len(plan_items) < cap
    /\ \E in \in inputs : Commit(on_add_plan_fn(Here, in))

on_delete_plan ==
    \E sel \in 0..Len(plan_items) :
        Commit(on_delete_plan_fn(Here, sel))

on_edit_plan ==
    \E sel \in 0..Len(plan_items) :
        Commit(on_edit_plan_fn(Here, sel))

on_save_plan_changes(inputs) ==
    \E in \in inputs :
        Commit(on_save_plan_changes_fn(Here, in))

on_add_scan_images ==
    \E n \in 0..1 :
        Commit(on_add_scan_images_fn(Here, n))

\* Midnight passes
NextDay ==
    /\ clock < MaxDays
    /\ clock' = clock + 1
    /\ UNCHANGED << patients, cases, treatment_plans, case_scan_images, patient_seq,
                    case_seq, current_patient_id, current_case_id, plan_items,
                    editing_plan_index, search_page, p_tree, p_selection, c_tree,
                    search_tree, calendar_cases >>

----------------------------------------------------------------------------
(* The application after ClinicApp.__init__ on a new database, the         *)
(* Patients tab shown                                                      *)

Init ==
    /\ patients = << >>
    /\ cases = << >>
    /\ treatment_plans = << >>
    /\ case_scan_images = << >>
    /\ patient_seq = 0
    /\ case_seq = 0
    /\ current_patient_id = None
    /\ current_case_id = None
    /\ plan_items = << >>
    /\ editing_plan_index = None
    /\ search_page = 0
    /\ p_tree = << >>
    /\ p_selection = None
    /\ c_tree = << >>
    /\ search_tree = << >>
    /\ calendar_cases = calendar_of(patients, cases)
    /\ clock = 0

\* Spec: the life of patients and their cases, plans and scan images
Next ==
    \/ on_patients_search(MainPFilters)
    \/ on_patients_clear
    \/ on_new_patient
    \/ on_patient_selected
    \/ on_save_patient(MainPForms, MainPFilters, MainSFilters)
    \/ on_delete_patient(MainPFilters)
    \/ on_new_case
    \/ on_save_case(MainPForms, MainCaseForms, MainPFilters, MainSFilters)
    \/ on_close_case(MainSFilters)
    \/ on_open_selected_history_case
    \/ on_add_plan(MainPlanInputs, MaxPlanItems)
    \/ on_add_scan_images

Spec == Init /\ [][Next]_vars

----------------------------------------------------------------------------
(* Claims checked under Spec                                               *)

\* The state on_delete_patient returns for the selected patient, the
\* confirmation given, with the patient filter pf typed in the search fields
AfterDelete(pf) ==
    on_delete_patient_fn(Cur(EmptyPatientForm, EmptyCaseForm, pf, EmptySFilter), TRUE)

OwnedCases(P) == {c \in DOMAIN cases : cases[c].patient_id = P}

\* C1: after on_delete_patient deletes the selected patient P, no case of P,
\* no treatment_plans row and no case_scan_images row of a case of P is left
\* in the store, and loading such a case reports "Not Found".
C1_DeleteRemovesOwnedRows ==
    \A pf \in MainPFilters :
        p_selection # None =>
            LET P == p_selection
                t == AfterDelete(pf)
            IN /\ P \notin DOMAIN t.patients
               /\ \A c \in DOMAIN t.cases : t.cases[c].patient_id # P
               /\ \A c \in OwnedCases(P) :
                    /\ c \notin DOMAIN t.cases
                    /\ PlansOf(t, c) = << >>
                    /\ ScansOf(t, c) = 0
                    /\ load_case_by_id_fn(t, c).result = "Not Found"
               /\ t.current_case_id = None

\* C1 witness: the selected patient owns a case with plan rows and scan
\* rows, another patient owns a case too, and the delete removes only the
\* former.
C1_Witness ==
    /\ p_selection # None
    /\ \E c \in OwnedCases(p_selection) :
          PlansOf(Here, c) # << >> /\ ScansOf(Here, c) > 0
    /\ \E c \in DOMAIN cases : cases[c].patient_id # p_selection
    /\ DOMAIN AfterDelete(EmptyPFilter).cases = DOMAIN cases \ OwnedCases(p_selection)

\* C2: every stored case belongs to a patient that exists.
C2_CaseHasPatient ==
    \A c \in DOMAIN cases : cases[c].patient_id \in DOMAIN patients

\* C2 witness: a patient and the case it owned are gone, and a case of
\* another patient is stored and closed.
C2_Witness ==
    /\ \E p \in 1..patient_seq : p \notin DOMAIN patients
    /\ \E c \in 1..case_seq : c \notin DOMAIN cases
    /\ \E c \in DOMAIN cases : cases[c].case_status = "Closed"

----------------------------------------------------------------------------
(* SpecClose: cases saved with every status, closed, reopened, over days   *)

CloseCaseForms ==
    {[ValidCaseForm EXCEPT !.case_status = st] :
        st \in {"Open", "In Progress", "Closed", "Cancelled"}}
    \cup {[ValidCaseForm EXCEPT !.op_number = Op_8]}

NextClose ==
    \/ on_patient_selected
    \/ on_new_case
    \/ on_save_case({ValidPatientForm}, CloseCaseForms, {EmptyPFilter}, MainSFilters)
    \/ on_close_case(MainSFilters)
    \/ on_open_selected_history_case
    \/ on_add_plan({ValidPlanInput}, MaxPlanItems)
    \/ NextDay

SpecClose == Init /\ [][NextClose]_vars

\* The current date as text
Today == strftime(AddDays(Epoch, clock))

\* C3: the closed_date of a stored case is non-null exactly when its
\* case_status is "Closed".
C3_ClosedDateIffClosed ==
    \A c \in DOMAIN cases :
        (cases[c].closed_date # NULL) <=> (cases[c].case_status = "Closed")

\* C3 witness: a closed case with its closure date is loaded next to a case
\* in progress, and saving it with status "Open" stores no closure date.
C3_Witness ==
    /\ current_case_id \in DOMAIN cases
    /\ cases[current_case_id].case_status = "Closed"
    /\ cases[current_case_id].closed_date = Today
    /\ \E c \in DOMAIN cases :
          cases[c].case_status = "In Progress" /\ cases[c].closed_date = NULL
    /\ LET t == on_save_case_fn(Cur(EmptyPatientForm, ValidCaseForm,
                                    EmptyPFilter, EmptySFilter))
       IN /\ t.result = "Saved"
          /\ t.cases[current_case_id].case_status = "Open"
          /\ t.cases[current_case_id].closed_date = NULL

\* The state on_close_case returns, the confirmation given
AfterClose ==
    on_close_case_fn(Cur(EmptyPatientForm, EmptyCaseForm, EmptyPFilter, EmptySFilter),
                     TRUE)

\* C7: on_close_case on a loaded case sets that case's status to "Closed"
\* and its closed_date to the current date and changes no other case, no
\* other field of the case and no plan row; with no case loaded it reports
\* "No Case" and changes nothing in the store.
C7_CloseCaseEffect ==
    LET t  == AfterClose
        id == current_case_id
    IN IF id = None
       THEN /\ t.result = "No Case"
            /\ t.cases = cases
            /\ t.patients = patients
            /\ t.treatment_plans = treatment_plans
            /\ t.case_scan_images = case_scan_images
       ELSE id \in DOMAIN cases =>
            /\ t.result = "Case Closed"
            /\ t.cases = [cases EXCEPT ![id] =
                             [cases[id] EXCEPT !.case_status = "Closed",
                                               !.closed_date = Today]]
            /\ t.patients = patients
            /\ t.treatment_plans = treatment_plans
            /\ t.case_scan_images = case_scan_images

\* C7 witness: an open case of an earlier day with a plan row is loaded,
\* another open case is stored, and the close stamps the loaded one.
C7_Witness ==
    /\ current_case_id \in DOMAIN cases
    /\ cases[current_case_id].case_status = "Open"
    /\ cases[current_case_id].case_date # Today
    /\ PlansOf(Here, current_case_id) # << >>
    /\ \E c \in DOMAIN cases : c # current_case_id /\ cases[c].case_status = "Open"
    /\ AfterClose.cases[current_case_id].closed_date = Today

----------------------------------------------------------------------------
(* SpecPlans: the plan list of a case added to, cut and saved again        *)

PlanCap == 3

Item_B == << 98 >>
Item_C == << 99 >>

\* Items A and B with a start date and a duration, item C with a name only
PlanInputsABC ==
    {[ValidPlanInput EXCEPT !.name = n] : n \in {Item_A, Item_B}}
    \cup {[EmptyPlanInputs EXCEPT !.name = Item_C]}

NextPlans ==
    \/ on_patient_selected
    \/ on_new_case
    \/ on_save_case({ValidPatientForm}, {ValidCaseForm}, {EmptyPFilter}, MainSFilters)
    \/ on_open_selected_history_case
    \/ on_add_plan(PlanInputsABC, PlanCap)
    \/ on_delete_plan

SpecPlans == Init /\ [][NextPlans]_vars

\* The state on_save_case returns for the valid case sheet
AfterSavePlans ==
    on_save_case_fn(Cur(ValidPatientForm, ValidCaseForm, EmptyPFilter, EmptySFilter))

\* The case on_save_case writes: the loaded one or the next id
SavedId == IF current_case_id = None THEN case_seq + 1 ELSE current_case_id

\* The names of the plan rows, resp. plan items, in order
RowNames(rows) == [i \in 1..Len(rows) |-> rows[i].name]

\* C4: after a successful on_save_case for a case, the treatment_plans rows
\* of that case are exactly the items of plan_items at the time of the save,
\* one row per item in order, and no row of an earlier save is left.
C4_PlanRowsAreItems ==
    LET t    == AfterSavePlans
        rows == PlansOf(t, SavedId)
    IN t.result = "Saved" =>
          /\ Len(rows) = Len(plan_items)
          /\ \A i \in 1..Len(rows) :
                /\ rows[i].name = plan_items[i].name
                /\ OrEmpty(rows[i].start_date) = plan_items[i].start
                /\ OrEmpty(rows[i].end_date) = plan_items[i].end
                /\ rows[i].duration_days =
                      IF plan_items[i].duration = EmptyText THEN << >>
                      ELSE << NumVal(plan_items[i].duration) >>

\* C4 witness: the loaded case is stored with rows [A, B, C], plan_items is
\* [A, C], and the save leaves exactly the rows A and C.
C4_Witness ==
    /\ current_case_id \in DOMAIN cases
    /\ RowNames(PlansOf(Here, current_case_id)) = << Item_A, Item_B, Item_C >>
    /\ RowNames(plan_items) = << Item_A, Item_C >>
    /\ AfterSavePlans.result = "Saved"
    /\ RowNames(PlansOf(AfterSavePlans, current_case_id)) = << Item_A, Item_C >>

----------------------------------------------------------------------------
(* SpecEnd: plan items typed with and without a start date and a duration  *)

EndCap == 2

Dur_0 == << ZERO >>
Dur_3 == << 51 >>
Dur_x == << 120 >>

EndInputs ==
    {[EmptyPlanInputs EXCEPT !.name = Item_A, !.duration = d, !.start = st] :
        d \in {EmptyText, Dur_0, Dur_3, Dur_x},
        st \in {EmptyText, Iso(2024, 2, 28), Iso(2024, 12, 31), BadDate}}
    \cup {EmptyPlanInputs}

NextEnd ==
    \/ on_add_plan(EndInputs, EndCap)
    \/ on_delete_plan
    \/ on_edit_plan
    \/ on_save_plan_changes(EndInputs)

SpecEnd == Init /\ [][NextEnd]_vars

\* C5: for every plan item accepted by on_add_plan or on_save_plan_changes,
\* end is start plus duration calendar days when start is a valid date and
\* duration a valid integer >= 0 (0 included), and end is empty when either
\* is missing or invalid.
C5_EndIsStartPlusDuration ==
    \A i \in 1..Len(plan_items) :
        LET it    == plan_items[i]
            start == parse_date(it.start)
            days  == int(it.duration)
        IN IF start.ok /\ it.duration # EmptyText /\ days.ok
           THEN days.v >= 0 => it.end = strftime(AddDays(start, days.v))
           ELSE it.end = EmptyText

----------------------------------------------------------------------------
(* SpecPatients: patient forms typed well and badly                        *)

Phone9 == << 57, 56, 55, 54, 53, 52, 51, 50, 49 >>

\* "abcdefghij"
PhoneLetters == << 97, 98, 99, 100, 101, 102, 103, 104, 105, 106 >>

PatientForms ==
    {[first |-> fn, last |-> Name_D, phone |-> ph, dob |-> dob,
      gender |-> EmptyText, email |-> EmptyText, address |-> EmptyText] :
        fn \in {Name_A, Blank},
        ph \in {Phone10, Phone9, PhoneLetters, << SPACE >> \o Phone10},
        dob \in {EmptyText, Iso(2000, 2, 29), Loose(2000, 2, 29), BadDate}}
    \cup {EmptyPatientForm, [ValidPatientForm EXCEPT !.last = EmptyText]}

NextPatients ==
    \/ on_patients_search(MainPFilters)
    \/ on_new_patient
    \/ on_patient_selected
    \/ on_save_patient(PatientForms, {EmptyPFilter}, MainSFilters)
    \/ on_delete_patient({EmptyPFilter})

SpecPatients == Init /\ [][NextPatients]_vars

\* A date written as YYYY-MM-DD
WellFormedDate(s) == Len(s) = 10 /\ parse_date(s).ok

\* C9: on_save_patient creates or updates a patient only if first name and
\* last name are non-empty, the phone is exactly 10 digits and dob, when
\* given, is a well-formed YYYY-MM-DD date; otherwise it reports a
\* validation error and the patients table is unchanged.
C9_SavePatientValidates ==
    \A f \in PatientForms :
        LET t     == on_save_patient_fn(Cur(f, EmptyCaseForm, EmptyPFilter, EmptySFilter))
            phone == safe_str(f.phone)
            dob   == safe_str(f.dob)
            valid == /\ safe_str(f.first) # EmptyText
                     /\ safe_str(f.last) # EmptyText
                     /\ Len(phone) = 10 /\ AllDigits(phone)
                     /\ dob # EmptyText => WellFormedDate(dob)
        IN IF valid THEN t.result = "Saved"
           ELSE t.result = "Validation Error" /\ t.patients = patients

----------------------------------------------------------------------------
(* SpecCases: case sheets typed well and badly, on two days                *)

CaseForms ==
    {ValidCaseForm,
     [ValidCaseForm EXCEPT !.op_number = Op_8],
     [ValidCaseForm EXCEPT !.op_number = Blank],
     [ValidCaseForm EXCEPT !.cc = Blank],
     [ValidCaseForm EXCEPT !.case_date = Iso(2024, 1, 31)],
     [ValidCaseForm EXCEPT !.case_date = Loose(2024, 1, 31)],
     [ValidCaseForm EXCEPT !.case_date = BadDate],
     [ValidCaseForm EXCEPT !.follow_up = Iso(2024, 2, 1)],
     [ValidCaseForm EXCEPT !.follow_up = BadDate],
     [ValidCaseForm EXCEPT !.case_date = BadDate, !.cc = Blank]}

NextCases ==
    \/ on_patient_selected
    \/ on_new_case
    \/ on_save_case({ValidPatientForm}, CaseForms, {EmptyPFilter}, MainSFilters)
    \/ on_open_selected_history_case
    \/ on_add_plan({ValidPlanInput}, MaxPlanItems)
    \/ NextDay

SpecCases == Init /\ [][NextCases]_vars

\* The state on_save_case returns for the case sheet cf; the patient form
\* is filled in, and is read only when no patient is current
AfterSaveCase(cf) ==
    on_save_case_fn(Cur(ValidPatientForm, cf, EmptyPFilter, EmptySFilter))

\* C6: no two distinct stored cases have the same (op_number, case_date)
\* pair: on_save_case rejects, with a validation error and no change to the
\* store, a create or update whose OP number is used by a different case on
\* the same case_date (a blank date counting as today), and accepts the
\* re-save of a case with its own OP number and date.
C6_OpNumberUniquePerDate ==
    /\ \A c1, c2 \in DOMAIN cases :
          c1 # c2 => \/ cases[c1].op_number # cases[c2].op_number
                     \/ cases[c1].case_date # cases[c2].case_date
    /\ \A cf \in CaseForms :
          LET t     == AfterSaveCase(cf)
              op    == safe_str(cf.op_number)
              typed == Strip(safe_str(cf.case_date))
              date  == IF typed = EmptyText THEN Today ELSE typed
              used(c) == cases[c].op_number = op /\ cases[c].case_date = date
          IN /\ (\E c \in DOMAIN cases : c # current_case_id /\ used(c)) =>
                   /\ t.result = "Validation Error"
                   /\ t.patients = patients
                   /\ t.cases = cases
                   /\ t.treatment_plans = treatment_plans
                   /\ t.case_scan_images = case_scan_images
             /\ ( /\ current_case_id \in DOMAIN cases
                  /\ used(current_case_id)
                  /\ cf.follow_up = EmptyText
                  /\ Strip(cf.cc) # EmptyText ) => t.result = "Saved"

\* C8: on_save_case stores a case only if op_number and chief_complaint are
\* non-empty and case_date and follow_up_date, when given, are well-formed
\* YYYY-MM-DD dates; when one of these fails it reports a validation error
\* and no cases row and no treatment_plans row is inserted, updated or
\* deleted.
C8_SaveCaseValidates ==
    \A cf \in CaseForms :
        LET t     == AfterSaveCase(cf)
            date  == Strip(safe_str(cf.case_date))
            fu    == Strip(safe_str(cf.follow_up))
            valid == /\ safe_str(cf.op_number) # EmptyText
                     /\ Strip(cf.cc) # EmptyText
                     /\ date # EmptyText => WellFormedDate(date)
                     /\ fu # EmptyText => WellFormedDate(fu)
        IN /\ (t.cases # cases \/ t.treatment_plans # treatment_plans) => valid
           /\ ~ valid => /\ t.result = "Validation Error"
                         /\ t.cases = cases
                         /\ t.treatment_plans = treatment_plans

----------------------------------------------------------------------------
(* SpecSearch: cases of three days searched by date range                  *)

SearchCaseForms ==
    {[ValidCaseForm EXCEPT !.case_date = d] :
        d \in {Iso(2024, 1, 30), Iso(2024, 1, 31), Iso(2024, 2, 1)}}

SearchDates == {EmptyText, Iso(2024, 1, 31), Loose(2024, 1, 31), BadDate}

SearchFilters ==
    {[EmptySFilter EXCEPT !.dfrom = a, !.dto = b] : a, b \in SearchDates}

NextSearch ==
    \/ on_new_case
    \/ on_save_case({ValidPatientForm}, SearchCaseForms, {EmptyPFilter}, MainSFilters)
    \/ on_search(SearchFilters)
    \/ on_search_clear
    \/ on_load_selected_case
    \/ on_close_case(MainSFilters)

SpecSearch == Init /\ [][NextSearch]_vars

\* a is the day b or an earlier day
DateLeq(a, b) ==
    \/ a.y < b.y
    \/ a.y = b.y /\ a.m < b.m
    \/ a.y = b.y /\ a.m = b.m /\ a.d <= b.d

\* C10: with a from and/or a to date filter set, on_search returns a case
\* if and only if from <= case_date <= to, each bound applied only when
\* given: the cases dated from or to are included, those dated before from
\* or after to are excluded.
C10_DateRangeFilter ==
    \A sf \in SearchFilters :
        LET from == Strip(safe_str(sf.dfrom))
            to   == Strip(safe_str(sf.dto))
            t    == on_search_fn(Show(Cur(EmptyPatientForm, EmptyCaseForm,
                                          EmptyPFilter, sf), ""))
            InRange(c) ==
                LET day == parse_date(cases[c].case_date)
                IN /\ from # EmptyText => DateLeq(parse_date(from), day)
                   /\ to # EmptyText => DateLeq(day, parse_date(to))
        IN ( /\ from # EmptyText \/ to # EmptyText
             /\ from # EmptyText => parse_date(from).ok
             /\ to # EmptyText => parse_date(to).ok
             /\ search_page = 0 ) =>
               {t.search_tree[i] : i \in 1..Len(t.search_tree)}
                   = {c \in DOMAIN cases : InRange(c)}

----------------------------------------------------------------------------
(* SpecPages: a store of more cases than a page holds, browsed page by     *)
(* page                                                                    *)

MaxPage == 3

\* Two patients, and the i-th case saved: the patients take turns, the case
\* dates run through the days of January 2024, the OP number is i
StoredPatients ==
    << [first_name |-> Name_A, last_name |-> Name_D, dob |-> NULL, phone |-> Phone10,
        gender |-> NULL, email |-> NULL, address |-> NULL],
       [first_name |-> Name_Z, last_name |-> Name_D, dob |-> NULL, phone |-> Phone10,
        gender |-> NULL, email |-> NULL, address |-> NULL] >>

StoredCase(i) ==
    [patient_id |-> 1 + (i % 2), op_number |-> NatText(i),
     case_date |-> Iso(2024, 1, 1 + (i % 28)), follow_up_date |-> NULL,
     case_status |-> "Open", closed_date |-> NULL, chief_complaint |-> Complaint]

StoreSizes == {0, 1, 2, 49, 50, 51, 52, 99, 100, 101, 102, 103, 151}

\* The application started on a store that holds n cases
InitPages ==
    /\ \E n \in StoreSizes :
          /\ cases = [i \in 1..n |-> StoredCase(i)]
          /\ case_seq = n
    /\ patients = StoredPatients
    /\ patient_seq = 2
    /\ treatment_plans = << >>
    /\ case_scan_images = << >>
    /\ current_patient_id = None
    /\ current_case_id = None
    /\ plan_items = << >>
    /\ editing_plan_index = None
    /\ search_page = 0
    /\ p_tree = << >>
    /\ p_selection = None
    /\ c_tree = << >>
    /\ search_tree = << >>
    /\ calendar_cases = calendar_of(patients, cases)
    /\ clock = 0

PageFilters ==
    {EmptySFilter,
     [EmptySFilter EXCEPT !.name = Name_A],
     [EmptySFilter EXCEPT !.dfrom = Iso(2024, 1, 15)],
     [EmptySFilter EXCEPT !.dto = Iso(2024, 1, 10)],
     [EmptySFilter EXCEPT !.dfrom = BadDate]}

NextPages ==
    \/ on_search(PageFilters)
    \/ on_next_page(PageFilters, MaxPage)
    \/ on_prev_page(PageFilters)
    \/ on_search_clear

SpecPages == InitPages /\ [][NextPages]_vars

\* The handler's state with the filter sf typed in the search fields
Typed(sf) == Show(Cur(EmptyPatientForm, EmptyCaseForm, EmptyPFilter, sf), "")

\* The cases the filter sf selects
Filtered(sf) ==
    {c \in DOMAIN cases : WhereHolds(Typed(sf), build_where_clause(Typed(sf)), c)}

\* The number of cases of F listed before c: those of a later case_date,
\* and those of the same case_date with a greater id
Ahead(F, c) ==
    Cardinality({b \in F : \/ TextLess(cases[c].case_date, cases[b].case_date)
                           \/ cases[b].case_date = cases[c].case_date /\ b > c})

\* The result tree of t holds the rows at the positions 50p .. 50p+49 of F;
\* a search refused for its filter shows no row
ShowsPage(t, F) ==
    LET rows == t.search_tree
        p    == t.search_page
    IN IF t.result = "Invalid date" THEN rows = << >> ELSE
       /\ Len(rows) = Cardinality({c \in F : /\ 50 * p <= Ahead(F, c)
                                             /\ Ahead(F, c) <= 50 * p + 49})
       /\ \A i \in 1..Len(rows) :
             rows[i] \in F /\ Ahead(F, rows[i]) = 50 * p + i - 1

\* C11: case search shows, for page index p, exactly the rows at positions
\* 50p .. 50p+49 of the filtered cases sorted by case_date descending then
\* id descending; search_page is never negative, on_prev_page at page 0
\* stays at page 0, and on_next_page always increments the page.
C11_Pagination ==
    /\ search_page >= 0
    /\ \A sf \in PageFilters :
          LET F == Filtered(sf)
              a == on_search_fn(Typed(sf))
              n == on_next_page_fn(Typed(sf))
              b == on_prev_page_fn(Typed(sf))
          IN /\ a.search_page = search_page /\ ShowsPage(a, F)
             /\ n.search_page = search_page + 1 /\ ShowsPage(n, F)
             /\ b.search_page = (IF search_page = 0 THEN 0 ELSE search_page - 1)
             /\ ShowsPage(b, F)

\* C11 witness: of 51 stored cases page 1 shows the one row left, the case
\* of the earliest date, and the previous page shows the 50 rows before it.
C11_Witness ==
    /\ Cardinality(DOMAIN cases) = 51
    /\ search_page = 1
    /\ Len(search_tree) = 1
    /\ \A c \in DOMAIN cases : ~ TextLess(cases[c].case_date,
                                          cases[search_tree[1]].case_date)
    /\ Len(on_prev_page_fn(Typed(EmptySFilter)).search_tree) = 50

----------------------------------------------------------------------------
(* The patient list on a large roster                                      *)

MaxGone == 2

\* A patient stored by an earlier run of the application
StoredPatient(i) ==
    [first_name |-> NatText(i), last_name |-> << 65 + (i % 3) >>,
     dob |-> NULL, phone |-> Phone10, gender |-> NULL, email |-> NULL, address |-> NULL]

RosterSizes == {0, 1, 2, 3, 4, 5, 501}

\* The application started on a store that holds n patients
InitRoster ==
    /\ \E n \in RosterSizes :
          /\ patients = [i \in 1..n |-> StoredPatient(i)]
          /\ patient_seq = n
    /\ cases = << >>
    /\ case_seq = 0
    /\ treatment_plans = << >>
    /\ case_scan_images = << >>
    /\ current_patient_id = None
    /\ current_case_id = None
    /\ plan_items = << >>
    /\ editing_plan_index = None
    /\ search_page = 0
    /\ p_tree = << >>
    /\ p_selection = None
    /\ c_tree = << >>
    /\ search_tree = << >>
    /\ calendar_cases = calendar_of(patients, cases)
    /\ clock = 0

Name_B == << 66 >>

BlankPFilter == [name |-> Blank, phone |-> Blank]

RosterFilters ==
    {EmptyPFilter, BlankPFilter, NoMatchFilter, [name |-> Name_B, phone |-> EmptyText]}

NextRoster ==
    \/ on_patients_search(RosterFilters)
    \/ on_patients_clear
    \/ on_patient_selected_at({1, PATIENT_LIMIT})
    \/ on_delete_patient_upto({EmptyPFilter}, MaxGone)

SpecRoster == InitRoster /\ [][NextRoster]_vars

\* Row a is not after row b in the order (last_name, first_name)
NameOrderLeq(a, b) ==
    \/ TextLess(patients[a].last_name, patients[b].last_name)
    \/ /\ patients[a].last_name = patients[b].last_name
       /\ TextLeq(patients[a].first_name, patients[b].first_name)

\* rows lists, without repetition, the first 500 stored patients of the
\* order (last_name, first_name)
FirstOfRoster(rows) ==
    LET n == Cardinality(DOMAIN patients)
    IN /\ Len(rows) = (IF n < 500 THEN n ELSE 500)
       /\ \A i \in 1..Len(rows) : rows[i] \in DOMAIN patients
       /\ \A i \in 1..(Len(rows) - 1) :
             rows[i] # rows[i + 1] /\ NameOrderLeq(rows[i], rows[i + 1])
       /\ Cardinality({rows[i] : i \in 1..Len(rows)}) = Len(rows)
       /\ \A p \in DOMAIN patients :
             (\A i \in 1..Len(rows) : rows[i] # p) =>
                 NameOrderLeq(rows[Len(rows)], p)

\* C12: a patient search with no name and no phone filter (and the Clear
\* button) lists all stored patients ascending by last_name, then
\* first_name, cut to the first 500 rows of that order.
C12_UnfilteredRoster ==
    /\ \A pf \in {EmptyPFilter, BlankPFilter} :
          FirstOfRoster(on_patients_search_fn(
              Cur(EmptyPatientForm, EmptyCaseForm, pf, EmptySFilter)).p_tree)
    /\ FirstOfRoster(on_patients_clear_fn(Here).p_tree)

\* An unfiltered search has listed 500 of 501 stored patients, not in the
\* order of their ids
C12_Witness ==
    /\ Cardinality(DOMAIN patients) = 501
    /\ Len(p_tree) = 500
    /\ p_tree[1] # 1
    /\ p_tree = on_patients_clear_fn(Here).p_tree
    /\ \E p \in DOMAIN patients : \A i \in 1..Len(p_tree) : p_tree[i] # p

----------------------------------------------------------------------------
(* The owner of a case                                                     *)

\* C13: the patient_id of a stored case never changes: no step (a save of
\* the loaded case, a close, a patient selection, ...) alters the owner of
\* a case that is still stored after it.
C13_OwnerNeverChanges ==
    [][\A c \in DOMAIN cases :
          c \in DOMAIN cases' => cases'[c].patient_id = cases[c].patient_id]_vars

\* A case is loaded, another patient than its owner is selected, and saving
\* the case sheet rewrites the case row
C13_Witness ==
    /\ current_case_id \in DOMAIN cases
    /\ current_patient_id \in DOMAIN patients
    /\ cases[current_case_id].patient_id # current_patient_id
    /\ \E cf \in MainCaseForms :
          LET t == on_save_case_fn(Cur(EmptyPatientForm, cf, EmptyPFilter, EmptySFilter))
          IN /\ t.result = "Saved"
             /\ t.cases[current_case_id] # cases[current_case_id]
             /\ t.cases[current_case_id].patient_id = cases[current_case_id].patient_id

----------------------------------------------------------------------------
(* SpecRoundTrip: patients saved and loaded again                          *)

Gender_F == << 70 >>
Email_e == << 101 >>
Address_a == << 97 >>

\* Patient forms with all seven fields, typed with and without blanks
\* around the text
RoundTripForms ==
    {[first |-> fn, last |-> Name_D, phone |-> ph, dob |-> dob,
      gender |-> g, email |-> e, address |-> a] :
        fn \in {Name_A, Blank \o Name_A},
        ph \in {Phone10, Blank \o Phone10, Phone9},
        dob \in {EmptyText, Iso(2000, 2, 29), Iso(2000, 2, 29) \o Blank},
        g \in {EmptyText, Gender_F},
        e \in {EmptyText, Email_e \o Blank},
        a \in {EmptyText, Address_a}}

NextRoundTrip ==
    \/ on_new_patient
    \/ on_patient_selected
    \/ on_save_patient(RoundTripForms, {EmptyPFilter}, MainSFilters)

SpecRoundTrip == Init /\ [][NextRoundTrip]_vars

\* The id of the row on_save_patient writes
SavedPatientId == IF current_patient_id = None THEN patient_seq + 1 ELSE current_patient_id

\* The form after on_save_patient has accepted f and on_patient_selected
\* has loaded the saved patient
Reloaded(f) ==
    LET t == on_save_patient_fn(Cur(f, EmptyCaseForm, EmptyPFilter, EmptySFilter))
    IN on_patient_selected_fn(t, SavedPatientId).patient_form

Accepted(f) ==
    on_save_patient_fn(Cur(f, EmptyCaseForm, EmptyPFilter, EmptySFilter)).result = "Saved"

\* The text of every field without the blanks around it
Trimmed(f) ==
    [first |-> Strip(f.first), last |-> Strip(f.last), gender |-> Strip(f.gender),
     dob |-> Strip(f.dob), phone |-> Strip(f.phone), email |-> Strip(f.email),
     address |-> Strip(f.address)]

\* C14 as stated: for every patient accepted by on_save_patient, loading
\* that patient afterwards yields first_name, last_name, gender, dob, phone,
\* email and address equal to the values that were entered.
C14_RoundTripExact ==
    \A f \in RoundTripForms : Accepted(f) => Reloaded(f) = f

\* C14, amended: for every patient accepted by on_save_patient, loading that
\* patient afterwards yields the seven fields equal to the values that were
\* entered with the leading and trailing blanks removed.
C14_RoundTripTrimmed ==
    \A f \in RoundTripForms : Accepted(f) => Reloaded(f) = Trimmed(f)

\* A patient saved from a form with all seven fields filled, two of them
\* typed with blanks around, is stored and selected
C14_Witness ==
    LET f == [first |-> Blank \o Name_A, last |-> Name_D, phone |-> Phone10,
              dob |-> Iso(2000, 2, 29), gender |-> Gender_F,
              email |-> Email_e \o Blank, address |-> Address_a]
    IN /\ current_patient_id \in DOMAIN patients
       /\ p_selection = current_patient_id
       /\ Accepted(f)
       /\ on_patient_selected_fn(Here, current_patient_id).patient_form = Trimmed(f)
       /\ Reloaded(f) = Trimmed(f)

----------------------------------------------------------------------------
(* SpecExport: PDF export                                                  *)

\* What the export meets outside the program: whether the reportlab
\* modules can be imported, whether the queries run, whether the document
\* builds, and whether the user names a file in the save dialog
ExportEnvs ==
    [reportlab : BOOLEAN, storage : BOOLEAN, render : BOOLEAN, file_path : BOOLEAN]

\* export_case_to_pdf: "True" and "False" are its return values,
\* "ImportError" is the exception of the imports that precede its try block
export_case_to_pdf(s, case_id, patient_id, env) ==
    IF ~ env.reportlab THEN "ImportError"
    ELSE IF ~ env.storage THEN "False"
    ELSE IF patient_id \notin DOMAIN s.patients \/ case_id \notin DOMAIN s.cases
    THEN "False"
    ELSE IF ~ env.render THEN "False"
    ELSE "True"

on_export_case_to_pdf_fn(s, env) ==
    IF s.current_case_id = None \/ s.current_patient_id = None THEN Show(s, "No Case")
    ELSE IF ~ env.storage THEN Show(s, "Error")
    ELSE IF \/ s.current_patient_id \notin DOMAIN s.patients
            \/ s.current_case_id \notin DOMAIN s.cases
    THEN Show(s, "Error")
    ELSE IF ~ env.file_path THEN Show(s, "")
    ELSE IF export_case_to_pdf(s, s.current_case_id, s.current_patient_id, env) = "True"
    THEN Show(s, "Success")
    ELSE Show(s, "Error")

on_export_case_to_pdf(envs) ==
    \E env \in envs : Commit(on_export_case_to_pdf_fn(Here, env))

NextExport ==
    \/ on_patient_selected
    \/ on_save_patient(MainPForms, MainPFilters, MainSFilters)
    \/ on_delete_patient(MainPFilters)
    \/ on_save_case(MainPForms, MainCaseForms, MainPFilters, MainSFilters)
    \/ on_open_selected_history_case
    \/ on_export_case_to_pdf(ExportEnvs)

SpecExport == Init /\ [][NextExport]_vars

\* C15: export_case_to_pdf reports every failure (missing patient row,
\* missing case row, storage error, rendering error, unavailable PDF library)
\* by returning False and never lets an exception reach its caller; it
\* returns True only when both the patient row and the case row exist.
C15_ExportReportsFailure ==
    \A env \in ExportEnvs, c \in 1..MaxCases, p \in 1..MaxPatients :
        LET r == export_case_to_pdf(Here, c, p, env)
            failure == \/ p \notin DOMAIN patients \/ c \notin DOMAIN cases
                       \/ ~ env.storage \/ ~ env.render \/ ~ env.reportlab
        IN /\ r \in {"True", "False"}
           /\ failure => r = "False"
           /\ r = "True" => p \in DOMAIN patients /\ c \in DOMAIN cases

----------------------------------------------------------------------------
(* The closure date of a case saved with another status                    *)

\* C16 as stated: when a case whose status is Closed is saved again with a
\* status other than Closed, its stored closed_date is not cleared: the
\* earlier closure date stays on the case.
C16_ClosedDateStays ==
    [][\A c \in DOMAIN cases :
          (/\ c \in DOMAIN cases'
           /\ cases[c].case_status = "Closed"
           /\ cases'[c].case_status # "Closed")
          => cases'[c].closed_date = cases[c].closed_date]_vars

\* C16, amended: when a case whose status is Closed is saved again with a
\* status other than Closed, its stored closed_date is cleared (NULL).
C16_ClosedDateCleared ==
    [][\A c \in DOMAIN cases :
          (/\ c \in DOMAIN cases'
           /\ cases[c].case_status = "Closed"
           /\ cases'[c].case_status # "Closed")
          => cases'[c].closed_date = NULL]_vars

\* A closed case with its closure date is loaded, and saving it with the
\* status "In Progress" stores the case without a closure date
C16_Witness ==
    /\ current_case_id \in DOMAIN cases
    /\ cases[current_case_id].case_status = "Closed"
    /\ cases[current_case_id].closed_date # NULL
    /\ LET t == on_save_case_fn(Cur(EmptyPatientForm,
                     [ValidCaseForm EXCEPT !.case_status = "In Progress"],
                     EmptyPFilter, EmptySFilter))
       IN /\ t.result = "Saved"
          /\ t.cases[current_case_id].case_status = "In Progress"
          /\ t.cases[current_case_id].closed_date = NULL

----------------------------------------------------------------------------
(* SpecAtomic: case saves on a storage that fails                          *)

AtomicCap == 2

MaxFailStep == 4

NextAtomic ==
    \/ on_patient_selected
    \/ on_new_case
    \/ on_save_case({ValidPatientForm}, {ValidCaseForm}, {EmptyPFilter}, MainSFilters)
    \/ on_save_case_failing({ValidPatientForm}, {ValidCaseForm}, {EmptyPFilter},
                            MainSFilters, 1..MaxFailStep)
    \/ on_open_selected_history_case
    \/ on_add_plan(PlanInputsABC, AtomicCap)
    \/ on_delete_plan

SpecAtomic == Init /\ [][NextAtomic]_vars

\* The state on_save_case returns when the storage fails at statement k
SaveFailingAt(k) ==
    on_save_case_fn([Cur(ValidPatientForm, ValidCaseForm, EmptyPFilter, EmptySFilter)
                        EXCEPT !.fail_at = k])

\* C17: the case row write and the delete-then-reinsert of the plan rows in
\* on_save_case are one atomic unit: if the save fails with a storage error
\* at any step, the stored case rows and plan rows are exactly as they were
\* before the save.
C17_SaveIsAtomic ==
    \A k \in 1..MaxFailStep :
        LET t == SaveFailingAt(k)
        IN t.result = "Database Error" =>
              /\ t.cases = cases
              /\ t.treatment_plans = treatment_plans

\* A case stored with plan rows is loaded, its plan list has been edited to
\* two items, and the save fails at the INSERT of the second item: the case
\* keeps its old rows
C17_Witness ==
    /\ current_case_id \in DOMAIN cases
    /\ PlansOf(Here, current_case_id) # << >>
    /\ Len(plan_items) = 2
    /\ plan_rows_of(plan_items) # PlansOf(Here, current_case_id)
    /\ LET t == SaveFailingAt(4)
       IN /\ t.result = "Database Error"
          /\ t.treatment_plans = treatment_plans
          /\ t.cases = cases

----------------------------------------------------------------------------
(* SpecLoad: cases loaded by id, also ids of cases that are gone           *)

NextLoad ==
    \/ on_patient_selected
    \/ on_save_patient(MainPForms, MainPFilters, MainSFilters)
    \/ on_delete_patient(MainPFilters)
    \/ on_save_case(MainPForms, MainCaseForms, MainPFilters, MainSFilters)
    \/ on_open_selected_history_case
    \/ on_add_plan(MainPlanInputs, MaxPlanItems)
    \/ load_case_by_id(1..MaxCases)

SpecLoad == Init /\ [][NextLoad]_vars

\* C18: when load_case_by_id is called for a case id that no longer exists,
\* it reports not found and leaves the session empty: current_patient_id =
\* None, current_case_id = None, plan_items empty, with the store unchanged.
C18_LoadMissingCase ==
    \A id \in 1..MaxCases :
        id \notin DOMAIN cases =>
            LET t == load_case_by_id_fn(Here, id)
            IN /\ t.result = "Not Found"
               /\ t.current_patient_id = None
               /\ t.current_case_id = None
               /\ t.plan_items = << >>
               /\ t.patients = patients
               /\ t.cases = cases
               /\ t.treatment_plans = treatment_plans
               /\ t.case_scan_images = case_scan_images

\* A case with a plan item is loaded, an earlier case has been deleted with
\* its patient, and loading the deleted case's id empties the session
C18_Witness ==
    /\ current_case_id \in DOMAIN cases
    /\ current_patient_id # None
    /\ plan_items # << >>
    /\ \E id \in 1..case_seq :
          /\ id \notin DOMAIN cases
          /\ load_case_by_id_fn(Here, id).result = "Not Found"
          /\ load_case_by_id_fn(Here, id).current_case_id = None
          /\ load_case_by_id_fn(Here, id).plan_items = << >>

----------------------------------------------------------------------------
(* SpecDuration: plan items with durations of either sign                  *)

DurationCap == 2

\* "-3"
Dur_minus3 == << DASH, 51 >>

DurationInputs ==
    {[EmptyPlanInputs EXCEPT !.name = Item_A, !.duration = d, !.start = st] :
        d \in {EmptyText, Dur_3, Dur_minus3, Dur_x},
        st \in {EmptyText, Iso(2024, 1, 31)}}

NextDuration ==
    \/ on_patient_selected
    \/ on_new_case
    \/ on_save_case({ValidPatientForm}, {ValidCaseForm}, {EmptyPFilter}, MainSFilters)
    \/ on_open_selected_history_case
    \/ on_add_plan(DurationInputs, DurationCap)
    \/ on_delete_plan
    \/ on_edit_plan
    \/ on_save_plan_changes(DurationInputs)

SpecDuration == Init /\ [][NextDuration]_vars

\* C19: every treatment plan item, in the in-memory list and in the store,
\* has a duration_days that is absent or an integer >= 0; a negative
\* duration is never accepted.
C19_DurationNeverNegative ==
    /\ \A i \in 1..Len(plan_items) :
          \/ plan_items[i].duration = EmptyText
          \/ (int(plan_items[i].duration).ok /\ int(plan_items[i].duration).v >= 0)
    /\ \A c \in DOMAIN treatment_plans :
          \A i \in 1..Len(treatment_plans[c]) :
              \/ treatment_plans[c][i].duration_days = << >>
              \/ treatment_plans[c][i].duration_days[1] >= 0

----------------------------------------------------------------------------
(* Plan items with a start date that is no date                            *)

\* The plan inputs with a name, a duration that is empty or an integer, and
\* a start text that parse_date refuses
UnparseableStart ==
    {in \in EndInputs :
        /\ safe_str(in.name) # EmptyText
        /\ safe_str(in.duration) # EmptyText => int(safe_str(in.duration)).ok
        /\ safe_str(in.start) # EmptyText
        /\ ~ parse_date(safe_str(in.start)).ok}

\* C20 as stated: a plan item whose start date cannot be parsed is still
\* accepted into the plan with an empty end: an unparseable date never
\* causes the item to be rejected or an error to be raised.
C20_BadStartAccepted ==
    \A in \in UnparseableStart :
        LET t == on_add_plan_fn(Here, in)
        IN /\ t.result # "Invalid Input"
           /\ Len(t.plan_items) = Len(plan_items) + 1
           /\ t.plan_items[Len(t.plan_items)].end = EmptyText

\* C20, amended: a plan item whose start date cannot be parsed is rejected:
\* on_add_plan reports Invalid Input and plan_items stays as it was.
C20_BadStartRejected ==
    \A in \in UnparseableStart :
        LET t == on_add_plan_fn(Here, in)
        IN /\ t.result = "Invalid Input"
           /\ t.plan_items = plan_items

\* An item is in the plan, and adding one with the start "x" and the
\* duration "3" is refused
C20_Witness ==
    /\ Len(plan_items) = 1
    /\ [EmptyPlanInputs EXCEPT !.name = Item_A, !.duration = Dur_3, !.start = BadDate] \in UnparseableStart
    /\ LET t == on_add_plan_fn(Here, [EmptyPlanInputs EXCEPT !.name = Item_A, !.duration = Dur_3, !.start = BadDate])
       IN t.result = "Invalid Input" /\ t.plan_items = plan_items

----------------------------------------------------------------------------
(* The closure date of a case saved again as Closed                        *)

\* C21: closed_date is stamped on the transition to Closed: re-saving a case
\* that is already Closed, with the status still Closed, leaves its
\* closed_date equal to the date on which it became Closed.
C21_ClosedDateStampedOnce ==
    [][\A c \in DOMAIN cases :
          (/\ c \in DOMAIN cases'
           /\ cases[c].case_status = "Closed"
           /\ cases'[c].case_status = "Closed")
          => cases'[c].closed_date = cases[c].closed_date]_vars

----------------------------------------------------------------------------
(* SpecReload: plan items of every field saved with a case and loaded again *)

ReloadCap == 2

Dosage_d == << 100 >>
Notes_n == << 110 >>

\* An item of every field filled, one with the duration 0, one with a name
\* only
ReloadInputs ==
    {[EmptyPlanInputs EXCEPT !.name = Item_A, !.duration = Dur_3,
                             !.dosage = Dosage_d, !.frequency = Dosage_d,
                             !.notes = Notes_n, !.status = "Ongoing",
                             !.start = Iso(2024, 1, 31)],
     [EmptyPlanInputs EXCEPT !.name = Item_B, !.duration = Dur_0,
                             !.start = Iso(2024, 1, 31)],
     [EmptyPlanInputs EXCEPT !.name = Item_C]}

NextReload ==
    \/ on_patient_selected
    \/ on_new_case
    \/ on_save_case({ValidPatientForm}, {ValidCaseForm}, {EmptyPFilter}, MainSFilters)
    \/ on_open_selected_history_case
    \/ on_add_plan(ReloadInputs, ReloadCap)
    \/ on_delete_plan

SpecReload == Init /\ [][NextReload]_vars

\* C22: saving a case and then loading it with load_case_by_id yields a
\* plan_items list equal to the list at the time of the save: same length,
\* same order and the same nine fields for every item, an item whose
\* duration is 0 included.
C22_PlanItemsReload ==
    LET t == AfterSavePlans
    IN t.result = "Saved" =>
          load_case_by_id_fn(t, SavedId).plan_items = plan_items

----------------------------------------------------------------------------
(* The session after a case save that is refused                           *)

\* C23: when on_save_case ends in a validation error, plan_items,
\* current_case_id and the entered case fields are the same as before the
\* call, on every path, the one where no patient was selected and the
\* handler first saves the patient included.
C23_RefusedSaveKeepsSession ==
    \A pform \in MainPForms, cform \in MainCaseForms, pfilter \in MainPFilters :
        LET t == on_save_case_fn(Cur(pform, cform, pfilter, EmptySFilter))
        IN t.result = "Validation Error" =>
              /\ t.plan_items = plan_items
              /\ t.current_case_id = current_case_id
              /\ t.case_form = cform

----------------------------------------------------------------------------
(* The owner of the loaded case                                            *)

\* C24: whenever both current_case_id and current_patient_id are set, the
\* loaded case is owned by the current patient, so that no export that
\* on_export_case_to_pdf reports as done renders one patient's details
\* with another patient's case.
C24_LoadedCaseOwned ==
    /\ (current_case_id \in DOMAIN cases /\ current_patient_id # None)
          => cases[current_case_id].patient_id = current_patient_id
    /\ \A env \in ExportEnvs :
          on_export_case_to_pdf_fn(Here, env).result = "Success"
              => cases[current_case_id].patient_id = current_patient_id

----------------------------------------------------------------------------
(* The plan item under edit                                                *)

\* C25: whenever editing_plan_index is not None it is a valid index into
\* plan_items, and while it stays set it designates the item on_edit_plan
\* loaded: no step of on_delete_plan, on_new_case, load_case_by_id or
\* clear_case_sheet puts another item, or none, at that index, so that
\* on_save_plan_changes overwrites exactly that item.
C25_EditIndexDesignatesItem ==
    /\ [](editing_plan_index # None => editing_plan_index \in 1..Len(plan_items))
    /\ [][(/\ editing_plan_index \in 1..Len(plan_items)
            /\ editing_plan_index' = editing_plan_index)
           => /\ editing_plan_index \in 1..Len(plan_items')
              /\ plan_items'[editing_plan_index] = plan_items[editing_plan_index]]_vars

----------------------------------------------------------------------------
(* The patients table after a case save that is refused                    *)

\* C26: an on_save_case that is rejected with a validation error (a missing
\* OP number or chief complaint, for example) leaves the patients table
\* unchanged: no patient row is created or modified by the failed save.
C26_RefusedSaveKeepsPatients ==
    \A pform \in MainPForms, cform \in CaseForms :
        LET t == on_save_case_fn(Cur(pform, cform, EmptyPFilter, EmptySFilter))
        IN t.result = "Validation Error" => t.patients = patients

----------------------------------------------------------------------------
(* SpecScans: scan images added after saves that the storage may abort     *)

ScanCap == 1

NextScans ==
    \/ on_patient_selected
    \/ on_new_case
    \/ on_save_case({ValidPatientForm}, {ValidCaseForm}, {EmptyPFilter}, MainSFilters)
    \/ on_save_case_failing({ValidPatientForm}, {ValidCaseForm}, {EmptyPFilter},
                            MainSFilters, 1..MaxFailStep)
    \/ on_open_selected_history_case
    \/ on_add_plan(PlanInputsABC, ScanCap)
    \/ on_add_scan_images

SpecScans == Init /\ [][NextScans]_vars

\* C27: in every reachable state, after an on_save_case of a new case that a
\* storage error aborted and rolled back included, current_case_id is None
\* or the id of a stored case, and no case_scan_images row has a case_id
\* that names no stored case.
C27_CurrentCaseStored ==
    /\ current_case_id = None \/ current_case_id \in DOMAIN cases
    /\ \A c \in DOMAIN case_scan_images :
          case_scan_images[c] > 0 => c \in DOMAIN cases

----------------------------------------------------------------------------
(* SpecCalendar: the appointment calendar after saves, closures and        *)
(* deletions of cases with and without a follow-up date                    *)

CalendarCap == 1

CalendarCaseForms ==
    {[ValidCaseForm EXCEPT !.op_number = op, !.follow_up = fu, !.case_status = st] :
        op \in {Op_7, Op_8},
        fu \in {EmptyText, Iso(2024, 2, 1), Iso(2024, 2, 2)},
        st \in {"Open", "Closed", "Cancelled"}}

\* The Refresh button of the Appointments tab
refresh_calendar ==
    Commit(refresh_calendar_fn(Here))

NextCalendar ==
    \/ on_patient_selected
    \/ on_new_case
    \/ on_save_case({ValidPatientForm}, CalendarCaseForms, {EmptyPFilter}, MainSFilters)
    \/ on_close_case(MainSFilters)
    \/ on_delete_patient_upto({EmptyPFilter}, CalendarCap)
    \/ on_open_selected_history_case
    \/ refresh_calendar

SpecCalendar == Init /\ [][NextCalendar]_vars

\* The stored cases of t that are due: a follow-up date and not Closed
DueCases(t) ==
    {c \in DOMAIN t.cases :
        /\ OrEmpty(t.cases[c].follow_up_date) # EmptyText
        /\ t.cases[c].case_status # "Closed"}

\* calendar_cases of t lists exactly the due cases, each under its date
CalendarShowsDue(t) ==
    /\ DOMAIN t.calendar_cases = {t.cases[c].follow_up_date : c \in DueCases(t)}
    /\ \A d \in DOMAIN t.calendar_cases :
          /\ {e.case_id : e \in t.calendar_cases[d]} =
                {c \in DueCases(t) : t.cases[c].follow_up_date = d}
          /\ \A e \in t.calendar_cases[d] :
                e.status = t.cases[e.case_id].case_status

AfterDeleteInCalendar ==
    on_delete_patient_fn(Cur(EmptyPatientForm, EmptyCaseForm, EmptyPFilter,
                             EmptySFilter), TRUE)

\* C28: after every successful on_save_case, on_close_case and
\* on_delete_patient, calendar_cases holds exactly the stored cases whose
\* follow_up_date is non-empty and whose status is not Closed (Cancelled
\* cases included), grouped by follow-up date; a Closed or deleted case is
\* never listed.
C28_CalendarListsDueCases ==
    /\ \A cf \in CalendarCaseForms :
          LET t == on_save_case_fn(Cur(ValidPatientForm, cf, EmptyPFilter, EmptySFilter))
          IN t.result = "Saved" => CalendarShowsDue(t)
    /\ AfterClose.result = "Case Closed" => CalendarShowsDue(AfterClose)
    /\ AfterDeleteInCalendar.result = "Deleted" => CalendarShowsDue(AfterDeleteInCalendar)

\* A Cancelled case and the loaded open case are listed under their
\* follow-up dates, a Closed case with a follow-up date is stored and not
\* listed, and closing the loaded case takes it off the calendar
C28_Witness ==
    /\ \E c \in DOMAIN cases :
          /\ cases[c].case_status = "Closed"
          /\ cases[c].follow_up_date # NULL
    /\ \E c \in DOMAIN cases :
          /\ cases[c].case_status = "Cancelled"
          /\ cases[c].follow_up_date \in DOMAIN calendar_cases
          /\ c \in {e.case_id : e \in calendar_cases[cases[c].follow_up_date]}
    /\ current_case_id \in DueCases(Here)
    /\ current_case_id \in
          {e.case_id : e \in calendar_cases[cases[current_case_id].follow_up_date]}
    /\ AfterClose.result = "Case Closed"
    /\ \A d \in DOMAIN AfterClose.calendar_cases :
          current_case_id \notin {e.case_id : e \in AfterClose.calendar_cases[d]}

----------------------------------------------------------------------------
(* The session after a case is saved or closed                             *)

\* No record is loaded in t, and on_close_case and on_add_scan_images are
\* refused
NothingLoaded(t) ==
    /\ t.current_case_id = None
    /\ t.current_patient_id = None
    /\ t.plan_items = << >>
    /\ on_close_case_fn(t, TRUE).result = "No Case"
    /\ on_add_scan_images_fn(t, 1).result = "No Case"

\* C29: immediately after a successful on_save_case or on_close_case the
\* session holds no loaded record: current_case_id = None,
\* current_patient_id = None and plan_items is empty, so a following
\* on_close_case or on_add_scan_images is refused.
C29_NothingLoadedAfterSave ==
    /\ \A cf \in CloseCaseForms :
          LET t == on_save_case_fn(Cur(ValidPatientForm, cf, EmptyPFilter, EmptySFilter))
          IN t.result = "Saved" => NothingLoaded(t)
    /\ AfterClose.result = "Case Closed" => NothingLoaded(AfterClose)

\* A stored case with a plan item is loaded for a selected patient; saving
\* it and closing it both succeed and leave nothing loaded
C29_Witness ==
    /\ current_case_id \in DOMAIN cases
    /\ current_patient_id \in DOMAIN patients
    /\ plan_items # << >>
    /\ AfterClose.result = "Case Closed"
    /\ NothingLoaded(AfterClose)
    /\ LET t == on_save_case_fn(Cur(ValidPatientForm, ValidCaseForm, EmptyPFilter,
                                    EmptySFilter))
       IN t.result = "Saved" /\ NothingLoaded(t)

----------------------------------------------------------------------------
(* The current patient after a new patient is saved                        *)

\* C30: after on_save_patient successfully inserts a new patient,
\* current_patient_id equals the id of the inserted patient when the handler
\* returns, whatever text is in the patient-search name and phone filters.
C30_InsertedPatientIsCurrent ==
    \A pform \in MainPForms, pfilter \in MainPFilters :
        LET t == on_save_patient_fn(Cur(pform, EmptyCaseForm, pfilter, EmptySFilter))
        IN (/\ current_patient_id = None
            /\ t.result = "Saved"
            /\ DOMAIN t.patients = DOMAIN patients \cup {patient_seq + 1})
           => t.current_patient_id = patient_seq + 1

====
